---- MODULE Spec2Model ----
(***************************************************************************)
(* State-machine model of the clinic-management application (Streamlit     *)
(* pages over a Firestore document store).                                 *)
(*                                                                         *)
(* One action is one script run of a page: Streamlit re-executes the whole *)
(* page script for every widget interaction, with at most one button       *)
(* pressed per run.  st.rerun() ends the current run and schedules a plain *)
(* run (rerun_pending).  The store is the single doctor's Firestore        *)
(* subtree; session variables are st.session_state entries.                *)
(*                                                                         *)
(* Text is modelled as sequences of one-character strings.  A stored       *)
(* expiry date is a piece of text: it is modelled as a record              *)
(* [form, day] where form says how the text is written ("canon" is the     *)
(* zero-padded %Y-%m-%d text strftime produces, "nopad" a text without     *)
(* zero padding that strptime still accepts, "bad" a text strptime         *)
(* rejects) and day is the calendar day it denotes.                        *)
(***************************************************************************)
EXTENDS Integers, Sequences, FiniteSets, TLC

VARIABLES
    \* ---- Inventory page (2_Inventory.py) ----
    stock,                \* store: doctors/{email}/stock, item id -> record
    inventory_data,       \* st.session_state.inventory_data
    today,                \* datetime.today().date(), as a day number
    active_filter,        \* st.session_state.active_filter
    email_alert_sent,     \* st.session_state["email_alert_sent"]
    enable_email_alerts,  \* st.session_state["enable_email_alerts"]
    alert_email,          \* st.session_state["alert_email"]
    doctor_alert_email,   \* store: doctors/{email}.alert_email
    days_threshold,       \* the "Days Until Expiry Warning" slider
    rerun_pending,        \* st.rerun() was called by the last run
    notice,               \* the st.success / st.warning / st.error of the last run
    auto_sent,            \* the last run delivered an automatic alert email
    alert_notice,         \* what the last run reported about its automatic send
    test_sent,            \* the last run delivered a test alert email
    uploaded_file,        \* the file in the uploader: << >> or <<its records>>
    import_notice,        \* how import_data_to_firebase ended in the last run
    \* ---- Treatment page (1_Treatment.py) ----
    patients,             \* store: doctors/{email}/patients, file_id -> record
    patient_status,       \* st.session_state.patient_status
    patient_selected,     \* st.session_state.patient_selected
    treatment_record,     \* st.session_state.treatment_record
    tooth_condition,      \* st.session_state["tooth_condition_<tooth>"]
    tooth_selected,       \* st.session_state.tooth_selected
    discount_amount,      \* the "Discount Amount" number input
    tax_apply,            \* the "Apply VAT (15%)" checkbox
    cost_summary,         \* the Cost Summary tab's computed figures
    settings,             \* store: doctors/{email}/settings/config
    treatment_notice,     \* the message of the Treatment page's last run
    \* ---- Doctor Settings page (5_Settings.py) ----
    procedure_inputs,     \* st.session_state["procedure_<i>"], row -> name given
    price_inputs,         \* st.session_state["price_<procedure>"], name -> price
    settings_notice       \* the message of the Settings page's last run

invVars == <<stock, inventory_data, today, active_filter,
             email_alert_sent, enable_email_alerts, alert_email,
             doctor_alert_email, days_threshold, rerun_pending, notice,
             auto_sent, alert_notice, test_sent, uploaded_file, import_notice>>

trVars == <<patients, patient_status, patient_selected, treatment_record,
            tooth_condition, tooth_selected, discount_amount, tax_apply,
            cost_summary, settings, treatment_notice,
            procedure_inputs, price_inputs, settings_notice>>

\* the settings document and the Settings page that edits it
setVars == <<settings, procedure_inputs, price_inputs, settings_notice>>

vars == <<invVars, trVars>>

(***************************************************************************)
(* Bounds of the model.                                                    *)
(***************************************************************************)
MaxItems == 2      \* inventory records the model lets the store hold
MaxToday == 2      \* last day the model's clock reaches
MaxDeficit == 0    \* how far below zero the model lets modify_stock take a quantity
MaxPlan == 2       \* entries the model lets a treatment plan hold
MaxProcedures == 3 \* procedures the model lets the settings list

(***************************************************************************)
(* Text helpers (Python str methods used by the code).                     *)
(***************************************************************************)
\* str.lower on one character
LowerChar(c) == CASE c = "A" -> "a" [] c = "B" -> "b" [] OTHER -> c

\* str.upper on one character
UpperChar(c) == CASE c = "a" -> "A" [] c = "b" -> "B" [] OTHER -> c

\* str.lower
Lower(s) == [i \in 1..Len(s) |-> LowerChar(s[i])]

\* str.capitalize: first character upper-cased, the rest lower-cased
Capitalize(w) == [i \in 1..Len(w) |-> IF i = 1 THEN UpperChar(w[i]) ELSE LowerChar(w[i])]

\* str.replace(' ', '_')
ReplaceSpaces(s) == [i \in 1..Len(s) |-> IF s[i] = " " THEN "_" ELSE s[i]]

\* str.split(): the maximal runs of non-blank characters, in order
RECURSIVE SplitFrom(_, _, _, _)
SplitFrom(s, i, word, acc) ==
    IF i > Len(s)
    THEN IF word = <<>> THEN acc ELSE Append(acc, word)
    ELSE IF s[i] = " "
         THEN SplitFrom(s, i + 1, <<>>, IF word = <<>> THEN acc ELSE Append(acc, word))
         ELSE SplitFrom(s, i + 1, Append(word, s[i]), acc)

Split(s) == SplitFrom(s, 1, <<>>, <<>>)

\* " ".join(words)
RECURSIVE Join(_)
Join(words) ==
    IF words = <<>> THEN <<>>
    ELSE IF Len(words) = 1 THEN words[1]
    ELSE words[1] \o <<" ">> \o Join(Tail(words))

\* str.strip(): the text without leading and trailing blanks
RECURSIVE StripLeft(_)
StripLeft(s) == IF s # <<>> /\ s[1] = " " THEN StripLeft(Tail(s)) ELSE s

RECURSIVE StripRight(_)
StripRight(s) ==
    IF s # <<>> /\ s[Len(s)] = " " THEN StripRight(SubSeq(s, 1, Len(s) - 1)) ELSE s

Strip(s) == StripRight(StripLeft(s))

\* format_item_name: capitalize the words that are entirely lower case
format_item_name_caps_all(item_name) ==
    LET words == Split(item_name)
    IN  Join([i \in 1..Len(words) |-> Capitalize(words[i])])

format_item_name(item_name) ==
    LET words == Split(item_name)
    IN  Join([i \in 1..Len(words) |->
                 IF words[i] = Lower(words[i]) THEN Capitalize(words[i]) ELSE words[i]])

(***************************************************************************)
(* Dates.                                                                  *)
(***************************************************************************)
\* date.strftime("%Y-%m-%d")
strftime(day) == [form |-> "canon", day |-> day]

\* datetime.strptime(text, "%Y-%m-%d") raises ValueError
StrptimeRaises(text) == text.form = "bad"

\* datetime.strptime(text, "%Y-%m-%d").date(), where it does not raise
strptime(text) == text.day

\* the document id built from the name as typed, letter case kept
ItemId_case_sensitive(name, expiry_text) == <<ReplaceSpaces(name), expiry_text>>

\* the document id f"{name.lower().replace(' ', '_')}_{expiry}": the slug and
\* the expiry text joined by "_" (no expiry text holds a "_", so the pair
\* determines the id and the id the pair)
ItemId(name, expiry_text) == <<ReplaceSpaces(Lower(name)), expiry_text>>

(***************************************************************************)
(* Inventory page: values and inputs.                                      *)
(***************************************************************************)
None == "None"     \* an absent session key or document field

DoctorEmail == "doc@clinic"     \* st.session_state["doctor_email"]

\* texts a user may type into the "Alert Email" input
EmailInputs == {"alt@clinic", "nomail"}

\* "@" in alert_email
HasAt(addr) == addr \in {"doc@clinic", "alt@clinic"}

DefaultThreshold == 5        \* low_threshold when a file record has none
ExpiringSoonDays == 30       \* days within which an item is "Expiring Soon"
DefaultDaysThreshold == 30   \* initial value of the expiry-warning slider
batch_size == 500            \* Firestore batch limit used by the import

\* expiry days offered by the model's date pickers (besides today)
ExpiryDays == {1, 32}

\* values of the expiry-warning slider (1..180 in the code)
SliderValues == {1, DefaultDaysThreshold}

Statuses == {"Normal", "Expiring Soon", "Low Stock", "Expired", "Out of Stock"}

Filters == {"All Items"} \cup Statuses

\* a cell of an imported file: a text that int() accepts, or one it rejects
Num(n) == [isnum |-> TRUE, val |-> n]

NotNum == [isnum |-> FALSE, val |-> 0]

\* the four fields every stored item has
Item(q, e, t, n) == [quantity |-> q, expiry_date |-> e, low_threshold |-> t, display_name |-> n]

NoEvent == [kind |-> "none", addr |-> None]

\* a message the page shows: its kind and, for the duplicate warning of
\* add_items, the formatted item name it quotes
Message(kind, item) == [kind |-> kind, item |-> item]

(***************************************************************************)
(* Store helpers.                                                          *)
(***************************************************************************)
\* document(id).set(data, merge=True) with all four fields given
SetDoc(docs, id, data) ==
    [k \in DOMAIN docs \cup {id} |-> IF k = id THEN data ELSE docs[k]]

\* document(id).delete()
DeleteDoc(docs, id) == [k \in DOMAIN docs \ {id} |-> docs[k]]

\* fetch_stock: every document of the stock collection
fetch_stock == stock

(***************************************************************************)
(* show_inventory: status classification, priority sort, filter.           *)
(***************************************************************************)
\* (expiry_date - today).days
DaysUntilExpiry(details, now) == strptime(details.expiry_date) - now

\* the successive overriding assignments of show_inventory, evaluation order swapped
ItemStatus_expiry_last(details, now) ==
    LET days == DaysUntilExpiry(details, now)
        s0 == "Normal"
        s1 == IF details.quantity <= details.low_threshold THEN "Low Stock" ELSE s0
        s2 == IF details.quantity = 0 THEN "Out of Stock" ELSE s1
        s3 == IF days <= ExpiringSoonDays THEN "Expiring Soon" ELSE s2
        s4 == IF days <= 0 THEN "Expired" ELSE s3
    IN  s4

\* the successive overriding assignments of show_inventory
ItemStatus(details, now) ==
    LET days == DaysUntilExpiry(details, now)
        s0 == "Normal"
        s1 == IF days <= ExpiringSoonDays THEN "Expiring Soon" ELSE s0
        s2 == IF details.quantity <= details.low_threshold THEN "Low Stock" ELSE s1
        s3 == IF days <= 0 THEN "Expired" ELSE s2
        s4 == IF details.quantity = 0 THEN "Out of Stock" ELSE s3
    IN  s4

\* status_priority with the table in evaluation order instead
status_priority_eval_order(status) ==
    CASE status = "Out of Stock" -> 0
      [] status = "Expired" -> 1
      [] status = "Low Stock" -> 2
      [] status = "Expiring Soon" -> 3
      [] OTHER -> 4

\* status_priority: priorities.get(status, 4)
status_priority(status) ==
    CASE status = "Expired" -> 0
      [] status = "Out of Stock" -> 1
      [] status = "Low Stock" -> 2
      [] status = "Expiring Soon" -> 3
      [] OTHER -> 4

\* inventory_data.items(): the documents in the store's stream order
RECURSIVE ItemsOf(_)
ItemsOf(ids) ==
    IF ids = {} THEN <<>>
    ELSE LET id == CHOOSE x \in ids : TRUE IN <<id>> \o ItemsOf(ids \ {id})

\* one row of st.session_state.inventory_records
InventoryRecord(id, details, now) ==
    [Item |-> details.display_name,
     Quantity |-> details.quantity,
     ExpiryDate |-> details.expiry_date,
     Days |-> DaysUntilExpiry(details, now),
     Status |-> ItemStatus(details, now),
     ID |-> id]

\* DataFrame.sort_values("Status Priority"): rows in ascending priority
RECURSIVE InsertRow(_, _)
InsertRow(row, rows) ==
    IF rows = <<>> THEN <<row>>
    ELSE IF status_priority(row.Status) < status_priority(rows[1].Status)
         THEN <<row>> \o rows
         ELSE <<rows[1]>> \o InsertRow(row, Tail(rows))

RECURSIVE sort_values(_)
sort_values(rows) ==
    IF rows = <<>> THEN <<>>
    ELSE InsertRow(rows[Len(rows)], sort_values(SubSeq(rows, 1, Len(rows) - 1)))

\* display_df[display_df["Status"] == active_filter]
RECURSIVE FilterRows(_, _)
FilterRows(rows, filter) ==
    IF rows = <<>> THEN <<>>
    ELSE IF rows[1].Status = filter
         THEN <<rows[1]>> \o FilterRows(Tail(rows), filter)
         ELSE FilterRows(Tail(rows), filter)

\* show_inventory raises: strptime on an expiry text it cannot parse
ShowInventoryRaises(inv) == \E id \in DOMAIN inv : StrptimeRaises(inv[id].expiry_date)

\* inventory_df: the records of every item, sorted by status priority
inventory_df(inv, now) ==
    LET ids == ItemsOf(DOMAIN inv)
        records == [i \in 1..Len(ids) |-> InventoryRecord(ids[i], inv[ids[i]], now)]
    IN  sort_values(records)

\* the table show_inventory displays (filtered_df; the model keeps the ID column)
show_inventory(inv, now, filter) ==
    IF filter # "All Items" THEN FilterRows(inventory_df(inv, now), filter)
    ELSE inventory_df(inv, now)

(***************************************************************************)
(* display_alerts: the Alerts tab of one script run.                       *)
(***************************************************************************)
\* the items display_alerts lists as near expiry (expiry_items), by id
ExpiryItems(inv, days, now) ==
    {id \in DOMAIN inv :
        /\ ~StrptimeRaises(inv[id].expiry_date)
        /\ DaysUntilExpiry(inv[id], now) <= days}

\* the automatic alert sent whether or not one was sent before
AutoAlertDue_no_gate(expiry_items, enabled, sent) == expiry_items # {} /\ enabled

\* the condition under which display_alerts attempts the automatic alert
AutoAlertDue(expiry_items, enabled, sent) == expiry_items # {} /\ enabled /\ ~sent

\* the alert state set to Sent after every send_alert call, whatever it returned
AfterSend_any_result(successfully, sent) == TRUE

\* email_alert_sent after send_alert returned: Sent when the result says
\* "successfully", otherwise as it was
AfterSend(successfully, sent) == IF successfully THEN TRUE ELSE sent

\* what the run shows about the automatic send: st.success after a send that
\* succeeded, st.error after one that failed, nothing when none was attempted
AlertReport(attempt, successfully) ==
    IF ~attempt THEN "none" ELSE IF successfully THEN "sent" ELSE "send_failed"

\* the flag never cleared when nothing is near expiry
AfterExpiryList_keep(expiry_items, sent) == sent

\* email_alert_sent after the expiry list is shown: cleared when it is empty
AfterExpiryList(expiry_items, sent) == IF expiry_items # {} THEN sent ELSE FALSE

\* a test alert held back while the alert state is Sent
TestAlertDue_gated(pressed, valid, expiry_items, sent) ==
    pressed /\ valid /\ expiry_items # {} /\ ~sent

\* the condition under which "Send Test Alert" calls send_alert: the button
\* pressed, a valid address typed, an item near expiry; the alert state
\* (sent) is not consulted
TestAlertDue(pressed, valid, expiry_items, sent) ==
    pressed /\ valid /\ expiry_items # {}

\* display_alerts: the values it leaves in the session and the store, and the
\* emails it delivers.  ev is the widget event of the run ("none", "toggle"
\* of the Enable checkbox, "update" or "test" button with the typed address);
\* send_ok, test_ok, write_ok are the outcomes of the automatic send, the test
\* send and the profile write, where the run makes them.
display_alerts(inv, days, ev, send_ok, test_ok, write_ok) ==
    LET from_doc == doctor_alert_email # None
        en1 == IF from_doc THEN TRUE ELSE enable_email_alerts
        em1 == IF from_doc THEN doctor_alert_email ELSE alert_email
    IN  IF DOMAIN inv = {}
        THEN [en |-> en1, em |-> em1, sent |-> email_alert_sent,
              dae |-> doctor_alert_email, auto |-> FALSE, report |-> "none",
              test |-> FALSE]
        ELSE
        LET expiry_items == ExpiryItems(inv, days, today)
            attempt == AutoAlertDue(expiry_items, en1, email_alert_sent) /\ em1 # None
            auto == attempt /\ send_ok
            sent1 == IF attempt THEN AfterSend(send_ok, email_alert_sent)
                     ELSE email_alert_sent
            sent2 == AfterExpiryList(expiry_items, sent1)
            previous == en1
            checkbox == IF ev.kind = "toggle" THEN ~previous ELSE previous
            turn_on == checkbox /\ ~previous
            turn_off == ~checkbox /\ previous
            em2 == IF turn_on /\ em1 = None THEN DoctorEmail ELSE em1
            dae1 == IF turn_on /\ write_ok THEN em2
                    ELSE IF turn_off /\ write_ok THEN None
                    ELSE doctor_alert_email
            sent3 == IF turn_on THEN FALSE ELSE sent2
            valid == HasAt(ev.addr)
            update == checkbox /\ ev.kind = "update" /\ valid
            em3 == IF update THEN ev.addr ELSE em2
            dae2 == IF update /\ write_ok THEN ev.addr ELSE dae1
            sent4 == IF update /\ write_ok THEN FALSE ELSE sent3
            test == /\ TestAlertDue(checkbox /\ ev.kind = "test", valid, expiry_items, sent4)
                    /\ test_ok
        IN  [en |-> checkbox, em |-> em3, sent |-> sent4, dae |-> dae2,
             auto |-> auto, report |-> AlertReport(attempt, send_ok), test |-> test]

\* the rest of a run that reaches the Alerts tab
AlertsTab(inv, days, ev, send_ok, test_ok, write_ok) ==
    LET r == display_alerts(inv, days, ev, send_ok, test_ok, write_ok)
    IN  /\ enable_email_alerts' = r.en
        /\ alert_email' = r.em
        /\ email_alert_sent' = r.sent
        /\ doctor_alert_email' = r.dae
        /\ auto_sent' = r.auto
        /\ alert_notice' = r.report
        /\ test_sent' = r.test
        /\ rerun_pending' = FALSE

\* a run that ends before the Alerts tab (st.rerun() or an uncaught exception)
NoAlertsTab ==
    /\ UNCHANGED <<enable_email_alerts, alert_email, doctor_alert_email>>
    /\ auto_sent' = FALSE
    /\ alert_notice' = "none"
    /\ test_sent' = FALSE

(***************************************************************************)
(* import_data_to_firebase.                                                *)
(***************************************************************************)
\* the required fields of a file record
RequiredFields == {"name", "quantity", "expiry_date"}

\* int(item['quantity']) or int(item.get('low_threshold', 5)) raises
ItemRaises(item) ==
    \/ ~item.quantity.isnum
    \/ "low_threshold" \in DOMAIN item /\ ~item.low_threshold.isnum

\* the document the import writes for a file record
ImportedItem(item) ==
    Item(item.quantity.val,
         item.expiry_date,
         IF "low_threshold" \in DOMAIN item THEN item.low_threshold.val ELSE DefaultThreshold,
         format_item_name(item.name))

\* batch.commit(): the queued set(..., merge=True) calls applied in order, so
\* that a document queued more than once holds what was queued for it last
CommitBatch(docs, batch) ==
    LET ids == {batch[i][1] : i \in DOMAIN batch}
        last(id) == CHOOSE i \in DOMAIN batch :
                       /\ batch[i][1] = id
                       /\ \A j \in DOMAIN batch : batch[j][1] = id => j <= i
    IN  [k \in DOMAIN docs \cup ids |-> IF k \in ids THEN batch[last(k)][2] ELSE docs[k]]

\* one pass of the loop's body, for the record item.  loop says how the loop
\* stands ("done" while it runs, "invalid" after a record lacking a required
\* field), the store as committed so far and the batch queued.  A commit
\* that raises inside the loop is caught with the record's own errors: the
\* batch and its counter stay as they are and the loop goes on.
ImportStep(loop, item, commit_ok) ==
    IF loop.outcome # "done" THEN loop
    ELSE IF ~(RequiredFields \subseteq DOMAIN item)
    THEN [outcome |-> "invalid", docs |-> loop.docs, batch |-> << >>]
    ELSE IF ItemRaises(item) THEN loop
    ELSE LET item_id == ItemId(format_item_name(item.name), item.expiry_date)
             queued == Append(loop.batch, <<item_id, ImportedItem(item)>>)
         IN  IF Len(queued) >= batch_size
             THEN IF commit_ok
                  THEN [outcome |-> "done", docs |-> CommitBatch(loop.docs, queued),
                        batch |-> << >>]
                  ELSE [outcome |-> "done", docs |-> loop.docs, batch |-> queued]
             ELSE [outcome |-> "done", docs |-> loop.docs, batch |-> queued]

\* the passes of the loop for the records from .. to, in order; a loop that
\* has ended (a return in the body) makes no further pass
RECURSIVE ImportRange(_, _, _, _, _)
ImportRange(loop, data, from, to, commit_ok) ==
    IF from > to THEN loop
    ELSE IF from = to THEN ImportStep(loop, data[from], commit_ok)
    ELSE LET middle == (from + to) \div 2
             first == ImportRange(loop, data, from, middle, commit_ok)
         IN  IF first.outcome # "done" THEN first
             ELSE ImportRange(first, data, middle + 1, to, commit_ok)

\* the loop over the file's records from record i on.  The result says how
\* the loop ended ("done", or "invalid" on a record lacking a required
\* field), the store as committed so far and the batch left queued.
ImportLoop(data, i, batch, docs, commit_ok) ==
    ImportRange([outcome |-> "done", docs |-> docs, batch |-> batch],
                data, i, Len(data), commit_ok)

\* an import that rejects a record whose id is already stored
import_data_reject_existing(docs, data, commit_ok) ==
    LET loop == ImportLoop(data, 1, << >>, docs, commit_ok)
        fresh == SelectSeq(loop.batch, LAMBDA w : w[1] \notin DOMAIN docs)
    IN  IF loop.outcome = "done" /\ loop.batch # << >>
        THEN IF commit_ok
             THEN [outcome |-> "done", docs |-> CommitBatch(loop.docs, fresh)]
             ELSE [outcome |-> "error", docs |-> loop.docs]
        ELSE [outcome |-> loop.outcome, docs |-> loop.docs]

\* the loop followed by the commit of the records left in the batch
import_data(docs, data, commit_ok) ==
    LET loop == ImportLoop(data, 1, << >>, docs, commit_ok)
    IN  IF loop.outcome = "done" /\ loop.batch # << >>
        THEN IF commit_ok
             THEN [outcome |-> "done", docs |-> CommitBatch(loop.docs, loop.batch)]
             ELSE [outcome |-> "error", docs |-> loop.docs]
        ELSE [outcome |-> loop.outcome, docs |-> loop.docs]

(***************************************************************************)
(* Inventory page: one action per kind of script run.                      *)
(*                                                                         *)
(* A run executes, in this order: show_inventory, add_items,               *)
(* edit_inventory, import_data_to_firebase, display_alerts.  st.rerun()    *)
(* and an uncaught exception end the run where they happen.  The file      *)
(* uploader keeps its file from run to run, so every run that gets as far  *)
(* as import_data_to_firebase imports the file again.  io gives the        *)
(* outcomes of the run's calls to its collaborators: read_ok and commit_ok *)
(* (the import reads the file, commits its batch), send_ok and test_ok     *)
(* (the automatic and the test email), write_ok (the profile write).       *)
(***************************************************************************)
\* the run stops in show_inventory: strptime raised on a stored expiry text
RunRaisesInShow ==
    /\ inventory_data' = fetch_stock
    /\ notice' = Message("exception", << >>)
    /\ import_notice' = "none"
    /\ rerun_pending' = FALSE
    /\ NoAlertsTab
    /\ UNCHANGED <<stock, email_alert_sent>>

\* a run whose button handler raised an exception nothing catches
RunRaises(inv) ==
    /\ inventory_data' = inv
    /\ notice' = Message("exception", << >>)
    /\ import_notice' = "none"
    /\ rerun_pending' = FALSE
    /\ NoAlertsTab

\* a run whose button handler changed the stock, refetched it and called st.rerun()
RunReruns(message) ==
    /\ inventory_data' = stock'
    /\ notice' = Message(message, << >>)
    /\ import_notice' = "none"
    /\ rerun_pending' = TRUE
    /\ NoAlertsTab

\* import_data_to_firebase in one run: nothing without a file in the uploader,
\* "error" when reading the file raises, else the import of its records
ImportOutcome(docs, upload, io) ==
    IF upload = << >> THEN [outcome |-> "none", docs |-> docs]
    ELSE IF ~io.read_ok THEN [outcome |-> "error", docs |-> docs]
    ELSE import_data(docs, upload[1], io.commit_ok)

\* the run from import_data_to_firebase on, after add_items and edit_inventory
\* left the message given: a completed import refetches the stock and calls
\* st.rerun(); otherwise the run goes on to display_alerts
RunContinues(inv, upload, message, days, ev, io) ==
    LET result == ImportOutcome(stock, upload, io)
    IN  /\ Cardinality(DOMAIN result.docs) <= MaxItems
        /\ stock' = result.docs
        /\ notice' = message
        /\ import_notice' = result.outcome
        /\ IF result.outcome = "done"
           THEN /\ inventory_data' = stock'
                /\ rerun_pending' = TRUE
                /\ NoAlertsTab
                /\ UNCHANGED email_alert_sent
           ELSE /\ inventory_data' = inv
                /\ AlertsTab(inv, days, ev, io.send_ok, io.test_ok, io.write_ok)

\* the user can act on the page: no rerun is under way, or the reruns are those
\* of the file left in the uploader, which go on until the user acts
CanInteract == ~rerun_pending \/ uploaded_file # << >>

\* a plain run of the page: no button pressed (a visit, or the run st.rerun() asked for)
PageRun(io) ==
    /\ IF ShowInventoryRaises(fetch_stock) THEN RunRaisesInShow
       ELSE RunContinues(fetch_stock, uploaded_file, Message("none", << >>),
                         days_threshold, NoEvent, io)
    /\ UNCHANGED <<today, active_filter, days_threshold, uploaded_file>>
    /\ UNCHANGED trVars

\* a file chosen in the uploader of import_data_to_firebase
UploadFile(data, io) ==
    /\ ~rerun_pending
    /\ uploaded_file = << >>
    /\ IF ShowInventoryRaises(fetch_stock) THEN RunRaisesInShow
       ELSE RunContinues(fetch_stock, <<data>>, Message("none", << >>),
                         days_threshold, NoEvent, io)
    /\ uploaded_file' = <<data>>
    /\ UNCHANGED <<today, active_filter, days_threshold>>
    /\ UNCHANGED trVars

\* the file removed from the uploader
RemoveFile(io) ==
    /\ uploaded_file # << >>
    /\ IF ShowInventoryRaises(fetch_stock) THEN RunRaisesInShow
       ELSE RunContinues(fetch_stock, << >>, Message("none", << >>),
                         days_threshold, NoEvent, io)
    /\ uploaded_file' = << >>
    /\ UNCHANGED <<today, active_filter, days_threshold>>
    /\ UNCHANGED trVars

\* a filter button of show_inventory
SetFilter(filter) ==
    /\ CanInteract
    /\ DOMAIN stock # {}
    /\ IF ShowInventoryRaises(fetch_stock)
       THEN /\ RunRaisesInShow
            /\ UNCHANGED active_filter
       ELSE /\ inventory_data' = fetch_stock
            /\ active_filter' = filter
            /\ notice' = Message("none", << >>)
            /\ import_notice' = "none"
            /\ rerun_pending' = TRUE
            /\ NoAlertsTab
            /\ UNCHANGED <<stock, email_alert_sent>>
    /\ UNCHANGED <<today, days_threshold, uploaded_file>>
    /\ UNCHANGED trVars

\* add_items with the "Add Item" button pressed, store_stock included
AddItem(raw, item_quantity, low_threshold, expiry_day, write_ok, io) ==
    /\ CanInteract
    /\ item_quantity >= 1
    /\ low_threshold >= 1
    /\ expiry_day >= today
    /\ IF ShowInventoryRaises(fetch_stock) THEN RunRaisesInShow
       ELSE
       LET inv == fetch_stock
           raw_item_name == Strip(raw)
           formatted_name == format_item_name(raw_item_name)
           expiry_string == strftime(expiry_day)
           item_id == ItemId(formatted_name, expiry_string)
       IN  IF raw_item_name = << >>
           THEN RunContinues(inv, uploaded_file, Message("invalid_name", << >>),
                             days_threshold, NoEvent, io)
           ELSE IF item_id \in DOMAIN inv \/ item_id \in DOMAIN stock
           THEN RunContinues(inv, uploaded_file, Message("exists", formatted_name),
                             days_threshold, NoEvent, io)
           ELSE /\ Cardinality(DOMAIN stock) < MaxItems
                /\ IF write_ok
                   THEN /\ stock' = SetDoc(stock, item_id,
                                Item(item_quantity, expiry_string, low_threshold,
                                     formatted_name))
                        /\ email_alert_sent' = FALSE
                        /\ RunReruns("added")
                   ELSE /\ RunRaises(inv)
                        /\ UNCHANGED <<stock, email_alert_sent>>
    /\ UNCHANGED <<today, active_filter, days_threshold, uploaded_file>>
    /\ UNCHANGED trVars

\* the edit form of handle_item_editing can be shown for the item: the number
\* inputs accept the stored quantity (min_value=0) and threshold (min_value=1)
EditFormShown(inv, edit_item) ==
    /\ edit_item \in DOMAIN inv
    /\ ~ShowInventoryRaises(inv)
    /\ inv[edit_item].quantity >= 0
    /\ inv[edit_item].low_threshold >= 1

\* the date the "New Expiry Date" input is pre-filled with
PrefilledExpiry(details, now) ==
    IF strptime(details.expiry_date) < now THEN now ELSE strptime(details.expiry_date)

\* the id "Save Changes" derives, built from the item's old expiry text
SavedItemId_keep_expiry(details, new_expiry) == ItemId(details.display_name, details.expiry_date)

\* the id "Save Changes" derives from the display name and the submitted date
SavedItemId(details, new_expiry) == ItemId(details.display_name, strftime(new_expiry))

\* handle_item_editing with "Save Changes" pressed
SaveChanges(edit_item, new_quantity, new_expiry, new_threshold, set_ok, delete_ok, io) ==
    /\ CanInteract
    /\ EditFormShown(fetch_stock, edit_item)
    /\ new_quantity >= 0
    /\ new_threshold >= 1
    /\ new_expiry >= today
    /\ LET inv == fetch_stock
           item_details == inv[edit_item]
           base_name == item_details.display_name
           expiry_string == strftime(new_expiry)
           new_item_id == SavedItemId(item_details, new_expiry)
           new_data == Item(new_quantity, expiry_string, new_threshold, base_name)
       IN  IF new_item_id # edit_item
           THEN IF new_item_id \in DOMAIN inv
                THEN RunContinues(inv, uploaded_file, Message("conflict", << >>),
                                  days_threshold, NoEvent, io)
                ELSE IF ~set_ok
                THEN /\ RunRaises(inv)
                     /\ UNCHANGED <<stock, email_alert_sent>>
                ELSE IF ~delete_ok
                THEN /\ Cardinality(DOMAIN stock) < MaxItems
                     /\ stock' = SetDoc(stock, new_item_id, new_data)
                     /\ RunRaises(inv)
                     /\ UNCHANGED email_alert_sent
                ELSE /\ stock' = DeleteDoc(SetDoc(stock, new_item_id, new_data), edit_item)
                     /\ email_alert_sent' = FALSE
                     /\ RunReruns("rekeyed")
           ELSE IF ~set_ok
                THEN /\ RunRaises(inv)
                     /\ UNCHANGED <<stock, email_alert_sent>>
                ELSE /\ stock' = SetDoc(stock, edit_item, new_data)
                     /\ email_alert_sent' = FALSE
                     /\ RunReruns("updated")
    /\ UNCHANGED <<today, active_filter, days_threshold, uploaded_file>>
    /\ UNCHANGED trVars

\* handle_item_editing with "Delete Item" pressed
DeleteItem(edit_item, delete_ok, io) ==
    /\ CanInteract
    /\ EditFormShown(fetch_stock, edit_item)
    /\ IF delete_ok
       THEN /\ stock' = DeleteDoc(stock, edit_item)
            /\ email_alert_sent' = FALSE
            /\ RunReruns("deleted")
       ELSE RunContinues(fetch_stock, uploaded_file, Message("delete_error", << >>),
                         days_threshold, NoEvent, io)
    /\ UNCHANGED <<today, active_filter, days_threshold, uploaded_file>>
    /\ UNCHANGED trVars

\* the "Days Until Expiry Warning" slider moved
SlideThreshold(days, io) ==
    /\ CanInteract
    /\ DOMAIN stock # {}
    /\ days # days_threshold
    /\ IF ShowInventoryRaises(fetch_stock) THEN RunRaisesInShow
       ELSE RunContinues(fetch_stock, uploaded_file, Message("none", << >>),
                         days, NoEvent, io)
    /\ days_threshold' = days
    /\ UNCHANGED <<today, active_filter, uploaded_file>>
    /\ UNCHANGED trVars

\* a run with a widget of the Alert Settings box used: the "Enable Email
\* Alerts" checkbox toggled, or "Update Email" or "Send Test Alert" pressed
AlertSettingsRun(ev, io) ==
    /\ ~rerun_pending
    /\ DOMAIN stock # {}
    /\ ~ShowInventoryRaises(fetch_stock)
    /\ ImportOutcome(stock, uploaded_file, io).outcome # "done"
    /\ RunContinues(fetch_stock, uploaded_file, Message("none", << >>),
                    days_threshold, ev, io)
    /\ UNCHANGED <<today, active_filter, days_threshold, uploaded_file>>
    /\ UNCHANGED trVars

\* the "Enable Email Alerts" checkbox toggled
ToggleAlerts(io) == AlertSettingsRun([kind |-> "toggle", addr |-> None], io)

\* "Update Email" pressed with addr typed in the "Alert Email" input
UpdateEmail(addr, io) ==
    /\ enable_email_alerts
    /\ AlertSettingsRun([kind |-> "update", addr |-> addr], io)

\* "Send Test Alert" pressed with addr typed in the "Alert Email" input
SendTestAlert(addr, io) ==
    /\ enable_email_alerts
    /\ AlertSettingsRun([kind |-> "test", addr |-> addr], io)

\* modify_stock(item_name, quantity_remove)
ModifyStock(item_name, quantity_remove) ==
    /\ ~rerun_pending
    /\ item_name \in DOMAIN stock
    /\ stock[item_name].quantity - quantity_remove >= 0 - MaxDeficit
    /\ stock' = [stock EXCEPT ![item_name].quantity = @ - quantity_remove]
    /\ inventory_data' = stock'
    /\ notice' = Message("quantity_updated", << >>)
    /\ UNCHANGED <<today, active_filter, email_alert_sent, enable_email_alerts,
                   alert_email, doctor_alert_email, days_threshold, rerun_pending,
                   auto_sent, alert_notice, test_sent, uploaded_file, import_notice>>
    /\ UNCHANGED trVars

\* the calendar day changes
Tick ==
    /\ ~rerun_pending
    /\ today < MaxToday
    /\ today' = today + 1
    /\ UNCHANGED <<stock, inventory_data, active_filter, email_alert_sent,
                   enable_email_alerts, alert_email, doctor_alert_email, days_threshold,
                   rerun_pending, notice, auto_sent, alert_notice, test_sent, uploaded_file,
                   import_notice>>
    /\ UNCHANGED trVars

(***************************************************************************)
(* Treatment page (1_Treatment.py): values.                                *)
(***************************************************************************)
\* app/data.json, adult layout: the teeth of the chart in display order
teeth_rows == <<"11", "12">>

Teeth == {teeth_rows[i] : i \in DOMAIN teeth_rows}

\* app/data.json: the condition catalog, in the order of the select boxes
health_conditions == <<"Healthy", "Decayed">>

HealthConditions == {health_conditions[i] : i \in DOMAIN health_conditions}

\* file ids typed into the "File ID" input
FileIds == {"F1", "F2"}

\* money is counted in hundredths of the currency unit
Cents(units) == units * 100

\* load_settings when the doctor has no settings document
DefaultSettings ==
    [treatment_procedures |-> <<"Cleaning">>,
     price_estimates |-> [p \in {"Cleaning"} |-> Cents(100)]]

\* a settings document after the doctor added "Scaling" at 200 and then
\* renamed it to "Filling": the price stays under the old name
ClinicSettings ==
    [treatment_procedures |-> <<"Cleaning", "Filling">>,
     price_estimates |-> [p \in {"Cleaning", "Scaling"} |->
                             IF p = "Cleaning" THEN Cents(100) ELSE Cents(200)]]

\* the Settings page was not opened in the session: its widgets have no state
SettingsPageUnvisited ==
    /\ procedure_inputs = << >>
    /\ price_inputs = << >>
    /\ settings_notice = "none"

\* dental_data["treatment_procedures"]
Procedures == {settings.treatment_procedures[i] : i \in DOMAIN settings.treatment_procedures}

\* the patient document written by the registration
PatientInfo(file_id) ==
    [file_id |-> file_id, dental_chart |-> << >>, treatment_plan |-> << >>]

\* st.session_state.patient_selected: the part of the patient record the
\* page reads back (its treatment_plan is read through treatment_record)
Selected(file_id, dental_chart) == [file_id |-> file_id, dental_chart |-> dental_chart]

NoPatient == Selected(None, << >>)

\* a change of one tooth's select box, and a run without one
ToothEvent(tooth, condition) == [tooth |-> tooth, condition |-> condition]

NoToothEvent == ToothEvent(None, None)

\* a submit of the treatment form, and a run without one
AddEvent(tooth, procedure) == [tooth |-> tooth, procedure |-> procedure]

NoAdd == AddEvent(None, None)

\* the outcomes of a run's writes to the store
TreatmentOutcome(chart_ok, plan_ok) == [chart_ok |-> chart_ok, plan_ok |-> plan_ok]

\* the Cost Summary tab is not shown
NoSummary ==
    [shown |-> FALSE, total_price |-> 0, discount_calculation |-> 0,
     tax_calculation |-> 0, final_calculation |-> 0]

(***************************************************************************)
(* render_chart (utils.py) and the chart's persistence.                    *)
(***************************************************************************)
\* the condition a tooth shows before its select box is read
current_condition(dental_chart, keys, tooth) ==
    IF tooth \in DOMAIN keys THEN keys[tooth]
    ELSE IF tooth \in DOMAIN dental_chart THEN dental_chart[tooth]
    ELSE "Healthy"

\* the value of the tooth's select box: the user's choice in the run that
\* follows a change, otherwise the option at default_index
selected_condition(dental_chart, keys, event, tooth) ==
    LET current == current_condition(dental_chart, keys, tooth)
    IN  IF event.tooth = tooth THEN event.condition
        ELSE IF current \in HealthConditions THEN current
        ELSE health_conditions[1]

\* "tooth_number not in dental_chart or dental_chart[tooth_number] != selected_condition"
ToothChanged(dental_chart, keys, event, tooth) ==
    \/ tooth \notin DOMAIN dental_chart
    \/ dental_chart[tooth] # selected_condition(dental_chart, keys, event, tooth)

\* render_chart: the chart (updated in place), the tooth_condition_ keys,
\* chart_changed and st.session_state.tooth_selected
render_chart(dental_chart, keys, selected_tooth, event) ==
    LET value(t) == selected_condition(dental_chart, keys, event, t)
        marked == {i \in DOMAIN teeth_rows :
                      /\ ToothChanged(dental_chart, keys, event, teeth_rows[i])
                      /\ value(teeth_rows[i]) # "Healthy"}
        last == CHOOSE i \in marked : \A j \in marked : j <= i
    IN  [chart |-> [t \in DOMAIN dental_chart \cup Teeth |->
                       IF t \in Teeth THEN value(t) ELSE dental_chart[t]],
         keys |-> [t \in DOMAIN keys \cup Teeth |->
                       IF t \in Teeth THEN value(t) ELSE keys[t]],
         changed |-> \E t \in Teeth : ToothChanged(dental_chart, keys, event, t),
         tooth_selected |-> IF marked = {} THEN selected_tooth ELSE teeth_rows[last]]

\* the session entries of the Treatment page, at the start of a run
Session ==
    [patients |-> patients, patient_status |-> patient_status,
     patient_selected |-> patient_selected, treatment_record |-> treatment_record,
     tooth_condition |-> tooth_condition, tooth_selected |-> tooth_selected,
     treatment_notice |-> "none"]

\* the Dental Chart block of the Treatment tab: render, then write the
\* whole chart when it changed
ChartSection(s, event, chart_ok) ==
    LET r == render_chart(s.patient_selected.dental_chart, s.tooth_condition,
                          s.tooth_selected, event)
        file_id == s.patient_selected.file_id
    IN  [s EXCEPT !.patient_selected = Selected(file_id, r.chart),
                  !.tooth_condition = r.keys,
                  !.tooth_selected = r.tooth_selected,
                  !.patients = IF r.changed /\ chart_ok /\ file_id \in DOMAIN s.patients
                               THEN [s.patients EXCEPT ![file_id].dental_chart = r.chart]
                               ELSE s.patients]

(***************************************************************************)
(* The treatment form (add procedure) and the management table.            *)
(***************************************************************************)
\* modify_treatment: the patients collection after the call, and its result
modify_treatment_ok(docs, file_id, write_ok) == write_ok /\ file_id \in DOMAIN docs

modify_treatment(docs, file_id, record, write_ok) ==
    IF modify_treatment_ok(docs, file_id, write_ok)
    THEN [docs EXCEPT ![file_id].treatment_plan = record]
    ELSE docs

\* the duplicate check of the treatment form
existing_procedures_last_entry(record, tooth, procedure) ==
    IF record = << >> THEN << >>
    ELSE SelectSeq(<<record[Len(record)]>>,
                   LAMBDA item : item.Tooth = tooth /\ item.Procedure = procedure)

existing_procedures(record, tooth, procedure) ==
    SelectSeq(record, LAMBDA item : item.Tooth = tooth /\ item.Procedure = procedure)

\* a lookup that falls back to the price of the first procedure
procedure_price_first(procedure) ==
    IF procedure \in DOMAIN settings.price_estimates
    THEN settings.price_estimates[procedure]
    ELSE settings.price_estimates[settings.treatment_procedures[1]]

\* price_estimates.get(treatment_procedure, 0)
procedure_price(procedure) ==
    IF procedure \in DOMAIN settings.price_estimates
    THEN settings.price_estimates[procedure] ELSE 0

\* the entry the form creates
new_procedure(tooth, condition, procedure, now) ==
    [Tooth |-> tooth, Condition |-> condition, Procedure |-> procedure,
     Cost |-> procedure_price(procedure), Status |-> "Pending",
     StartDate |-> strftime(now)]

\* the submit handler of the treatment form
AddSection(s, add, plan_ok) ==
    IF add = NoAdd THEN s
    ELSE IF existing_procedures(s.treatment_record, add.tooth, add.procedure) # << >>
    THEN [s EXCEPT !.treatment_notice = "duplicate"]
    ELSE LET chart == s.patient_selected.dental_chart
             condition == IF add.tooth \in DOMAIN chart THEN chart[add.tooth] ELSE "Healthy"
             record == Append(s.treatment_record,
                              new_procedure(add.tooth, condition, add.procedure, today))
             file_id == s.patient_selected.file_id
         IN  [s EXCEPT !.treatment_record = record,
                       !.patients = modify_treatment(s.patients, file_id, record, plan_ok),
                       !.treatment_notice =
                           IF modify_treatment_ok(s.patients, file_id, plan_ok)
                           THEN "added" ELSE "write_failed"]

\* the rows of the management table: each row's Condition in the session
\* copy of the plan follows the chart
ManagementSection(s) ==
    LET chart == s.patient_selected.dental_chart
        record == s.treatment_record
    IN  [s EXCEPT !.treatment_record =
            [i \in DOMAIN record |->
                IF record[i].Tooth \in DOMAIN chart
                THEN [record[i] EXCEPT !.Condition = chart[record[i].Tooth]]
                ELSE record[i]]]

(***************************************************************************)
(* The Cost Summary tab.                                                   *)
(***************************************************************************)
RECURSIVE SumCost(_)
SumCost(record) ==
    IF record = << >> THEN 0 ELSE record[1].Cost + SumCost(Tail(record))

\* min(discount_amount, total_price)
Min(a, b) == IF a <= b THEN a ELSE b

\* the figures of the tab; prices are whole currency units, so that 15 %
\* of a total is a whole number of hundredths
CostSummary_vat_after_discount(record, discount, tax) ==
    LET total_price == SumCost(record)
        discount_calculation == Min(discount, total_price)
        tax_calculation == IF tax THEN ((total_price - discount_calculation) * 15) \div 100 ELSE 0
    IN  [shown |-> TRUE, total_price |-> total_price,
         discount_calculation |-> discount_calculation,
         tax_calculation |-> tax_calculation,
         final_calculation |-> total_price - discount_calculation + tax_calculation]

CostSummary(record, discount, tax) ==
    IF record = << >>
    THEN [shown |-> TRUE, total_price |-> SumCost(record), discount_calculation |-> 0,
          tax_calculation |-> 0, final_calculation |-> SumCost(record)]
    ELSE LET total_price == SumCost(record)
             tax_calculation == IF tax THEN (total_price * 15) \div 100 ELSE 0
             discount_calculation == Min(discount, total_price)
         IN  [shown |-> TRUE, total_price |-> total_price,
              discount_calculation |-> discount_calculation,
              tax_calculation |-> tax_calculation,
              final_calculation |-> total_price - discount_calculation + tax_calculation]

(***************************************************************************)
(* Treatment page: actions.  One action is one run of main(): the button   *)
(* handlers of the registration block, then, while a patient is active,    *)
(* the chart, the treatment form, the management table and the Cost        *)
(* Summary tab.  A widget that a complete run does not render loses its    *)
(* value, so the discount and the VAT box fall back to 0 and unchecked.    *)
(***************************************************************************)
\* a run of the Treatment page renders no widget of the Settings page: their
\* state is dropped, and the settings document is left as it is
SettingsWidgetsDropped ==
    /\ settings' = settings
    /\ procedure_inputs' = << >>
    /\ price_inputs' = << >>
    /\ settings_notice' = "none"

\* the part of a run that follows the registration block
FinishRun(s, event, add, discount, tax, io) ==
    LET f == IF s.patient_status
             THEN ManagementSection(AddSection(ChartSection(s, event, io.chart_ok),
                                               add, io.plan_ok))
             ELSE s
        widgets == f.patient_status /\ f.treatment_record # << >>
    IN  /\ patients' = f.patients
        /\ patient_status' = f.patient_status
        /\ patient_selected' = f.patient_selected
        /\ treatment_record' = f.treatment_record
        /\ tooth_condition' = f.tooth_condition
        /\ tooth_selected' = f.tooth_selected
        /\ treatment_notice' = f.treatment_notice
        /\ discount_amount' = IF widgets THEN discount ELSE 0
        /\ tax_apply' = IF widgets THEN tax ELSE FALSE
        /\ cost_summary' = IF f.patient_status
                           THEN CostSummary(f.treatment_record, discount_amount', tax_apply')
                           ELSE NoSummary
        /\ SettingsWidgetsDropped
        /\ UNCHANGED invVars

\* "Register Patient"; complete says that name, age and file id are filled
RegisterPatient(file_id, complete, fetch_ok, store_ok, io) ==
    LET existing_patient == fetch_ok /\ file_id \in DOMAIN patients
        s == IF ~complete
             THEN [Session EXCEPT !.patient_status = FALSE,
                                  !.treatment_notice = "incomplete"]
             ELSE IF existing_patient
             THEN [Session EXCEPT !.patient_status = FALSE,
                                  !.treatment_notice = "exists"]
             ELSE IF store_ok
             THEN [Session EXCEPT !.patients = SetDoc(patients, file_id, PatientInfo(file_id)),
                                  !.patient_status = TRUE,
                                  !.patient_selected = Selected(file_id, << >>),
                                  !.treatment_record = << >>,
                                  !.treatment_notice = "registered"]
             ELSE [Session EXCEPT !.treatment_notice = "store_failed"]
    IN  FinishRun(s, NoToothEvent, NoAdd, discount_amount, tax_apply, io)

\* "Search Patient".  The handler sets the tooth_condition_ keys of the
\* teeth in the found chart; a select box rendered by the previous run
\* either takes the new key as its value or keeps its own (the two
\* behaviours of a keyed widget whose default changed): widgets_kept
SearchPatient(file_id, fetch_ok, widgets_kept, io) ==
    LET found == fetch_ok /\ file_id \in DOMAIN patients
        dental_chart == patients[file_id].dental_chart
        kept(t) == widgets_kept /\ patient_status /\ t \in DOMAIN tooth_condition
        s == IF found
             THEN [Session EXCEPT
                      !.patient_status = TRUE,
                      !.patient_selected = Selected(file_id, dental_chart),
                      !.treatment_record = patients[file_id].treatment_plan,
                      !.tooth_condition =
                          [t \in DOMAIN tooth_condition \cup DOMAIN dental_chart |->
                              IF t \in DOMAIN dental_chart /\ ~kept(t)
                              THEN dental_chart[t] ELSE tooth_condition[t]],
                      !.treatment_notice = "found"]
             ELSE [Session EXCEPT !.patient_status = FALSE,
                                  !.treatment_notice = "not_found"]
    IN  FinishRun(s, NoToothEvent, NoAdd, discount_amount, tax_apply, io)

\* "Clear Current Patient", and the run st.rerun() starts
ClearPatient(io) ==
    /\ patient_status
    /\ FinishRun([Session EXCEPT !.patient_status = FALSE,
                                 !.treatment_record = << >>,
                                 !.tooth_condition = << >>],
                 NoToothEvent, NoAdd, discount_amount, tax_apply, io)

\* the user picks another condition in a tooth's select box
ChangeTooth(tooth, condition, io) ==
    /\ patient_status
    /\ tooth_condition[tooth] # condition
    /\ FinishRun(Session, ToothEvent(tooth, condition), NoAdd,
                 discount_amount, tax_apply, io)

\* the plan holds an entry on this tooth with this procedure
HasPair(record, tooth, procedure) ==
    \E i \in DOMAIN record : record[i].Tooth = tooth /\ record[i].Procedure = procedure

\* "Add Procedure"; the model stops offering new pairs at MaxPlan entries
AddProcedure(tooth, procedure, io) ==
    /\ patient_status
    /\ procedure \in Procedures
    /\ \/ Len(treatment_record) < MaxPlan
       \/ HasPair(treatment_record, tooth, procedure)
    /\ FinishRun(Session, NoToothEvent, AddEvent(tooth, procedure),
                 discount_amount, tax_apply, io)

\* the user types a discount
SetDiscount(discount, io) ==
    /\ patient_status
    /\ treatment_record # << >>
    /\ discount # discount_amount
    /\ FinishRun(Session, NoToothEvent, NoAdd, discount, tax_apply, io)

\* the user ticks or unticks "Apply VAT (15%)"
SetTaxApply(io) ==
    /\ patient_status
    /\ treatment_record # << >>
    /\ FinishRun(Session, NoToothEvent, NoAdd, discount_amount, ~tax_apply, io)

(***************************************************************************)
(* The treatment-management form ("Update Treatment Management").          *)
(***************************************************************************)
\* key_id = f"{tooth}_{procedure}_{i}"
key_id(item, i) == <<item.Tooth, item.Procedure, i>>

\* the "status_<key_id>" entries of st.session_state with the status select
\* box of every row rendered (each at its first option)
session_status_rendered ==
    [k \in Teeth \X {"Cleaning", "Filling", "Scaling"} \X (1..(MaxPlan + 1)) |-> "Pending"]

\* the "status_<key_id>" entries of st.session_state.  The select box that
\* would create them is commented out and nothing assigns one: there is none
session_status == << >>

\* updated_procedure: the entry the handler builds for a surviving row
updated_procedure(item, procedure, start_date, status) ==
    [Tooth |-> item.Tooth,
     Procedure |-> procedure,
     Cost |-> IF procedure # item.Procedure
              THEN IF procedure \in DOMAIN settings.price_estimates
                   THEN settings.price_estimates[procedure] ELSE item.Cost
              ELSE item.Cost,
     Status |-> status,
     StartDate |-> strftime(start_date)]

\* the loop that builds updated_treatments from row i on; raises says that
\* st.session_state[f"status_{key_id}"] raised KeyError on a surviving row
RECURSIVE updated_treatments(_, _, _, _, _)
updated_treatments(record, i, procedures, start_dates, procedures_to_delete) ==
    IF i > Len(record) THEN [raises |-> FALSE, list |-> << >>]
    ELSE IF i \in procedures_to_delete
    THEN updated_treatments(record, i + 1, procedures, start_dates, procedures_to_delete)
    ELSE IF key_id(record[i], i) \notin DOMAIN session_status
    THEN [raises |-> TRUE, list |-> << >>]
    ELSE LET rest == updated_treatments(record, i + 1, procedures, start_dates,
                                        procedures_to_delete)
             entry == updated_procedure(record[i], procedures[i], start_dates[i],
                                        session_status[key_id(record[i], i)])
         IN  [raises |-> rest.raises,
              list |-> IF rest.raises THEN << >> ELSE <<entry>> \o rest.list]

\* a run that an uncaught exception ends inside the Treatment tab: the
\* session is as the sections before left it, and no later tab is computed
AbortRun(s) ==
    /\ patients' = s.patients
    /\ patient_status' = s.patient_status
    /\ patient_selected' = s.patient_selected
    /\ treatment_record' = s.treatment_record
    /\ tooth_condition' = s.tooth_condition
    /\ tooth_selected' = s.tooth_selected
    /\ treatment_notice' = "exception"
    /\ cost_summary' = NoSummary
    /\ UNCHANGED <<discount_amount, tax_apply>>
    /\ SettingsWidgetsDropped
    /\ UNCHANGED invVars

\* "Update Treatment Management": procedures and start_dates are the values
\* of the rows' inputs, procedures_to_delete the rows marked for deletion.
\* After a successful write st.rerun() starts the next run; after a failed
\* one the run goes on to the Cost Summary tab.
BulkUpdate(procedures, start_dates, procedures_to_delete, io) ==
    /\ patient_status
    /\ treatment_record # << >>
    /\ LET s == ManagementSection(ChartSection(Session, NoToothEvent, io.chart_ok))
           u == updated_treatments(s.treatment_record, 1, procedures, start_dates,
                                   procedures_to_delete)
           file_id == s.patient_selected.file_id
           saved == modify_treatment_ok(s.patients, file_id, io.plan_ok)
           t == [s EXCEPT !.treatment_record = u.list,
                          !.patients = modify_treatment(s.patients, file_id, u.list,
                                                        io.plan_ok),
                          !.treatment_notice = IF saved THEN "updated" ELSE "write_failed"]
       IN  IF u.raises THEN AbortRun(s)
           ELSE FinishRun(t, NoToothEvent, NoAdd, discount_amount, tax_apply, io)

(***************************************************************************)
(* Doctor Settings page: manage_treatments.                                *)
(*                                                                         *)
(* Every run loads the settings document, shows one row per persisted      *)
(* procedure (a name input keyed by the row's index, a price input keyed   *)
(* by the persisted name, a delete button) and the "Add New Procedure"     *)
(* form.  The names and prices the inputs give are written into the loaded *)
(* lists in memory; only a delete button and "Save Procedure" save them.   *)
(***************************************************************************)
\* str.title() on the texts of the model: every word's first letter in upper
\* case, its other letters in lower case
title(text) ==
    CASE text = "cleaning" -> "Cleaning"
      [] text = "filling" -> "Filling"
      [] OTHER -> text

\* the elements of a list
Range(list) == {list[i] : i \in DOMAIN list}

\* list.pop(index), as the list left
RemoveAt(list, index) ==
    [j \in 1..(Len(list) - 1) |-> IF j < index THEN list[j] ELSE list[j + 1]]

\* prices.get(procedure, 0)
PriceOf(prices, procedure) == IF procedure \in DOMAIN prices THEN prices[procedure] ELSE 0

\* two rows of the page have the same persisted name: their price inputs
\* have the same key, which Streamlit refuses with an exception
DuplicateKeys(procedures) ==
    \E i, j \in DOMAIN procedures : i < j /\ procedures[i] = procedures[j]

\* the texts in the rows' name inputs: a widget's state, else its value= (the
\* persisted name)
RowNames(procedures) ==
    [i \in DOMAIN procedures |->
        IF i \in DOMAIN procedure_inputs THEN procedure_inputs[i] ELSE procedures[i]]

\* the numbers in the rows' price inputs: a widget's state, else its value=
\* (the persisted price, 0 without one)
PriceInputs(procedures, prices) ==
    [p \in Range(procedures) |->
        IF p \in DOMAIN price_inputs THEN price_inputs[p] ELSE PriceOf(prices, p)]

\* the loop over the rows: procedures[i] = new_name, prices[procedure] = the
\* price input's number
RowsLoop(procedures, prices, names, numbers) ==
    [procedures |-> [i \in DOMAIN procedures |-> title(names[i])],
     prices |-> [p \in DOMAIN prices \cup Range(procedures) |->
                    IF p \in Range(procedures) THEN numbers[p] ELSE prices[p]]]

\* "Handle deletion": procedures.pop(index), and prices.pop(procedure_name)
\* when the popped name has a price
DeleteRow(procedures, rows, index) ==
    [treatment_procedures |-> RemoveAt(rows.procedures, index),
     price_estimates |-> [p \in DOMAIN rows.prices \ {rows.procedures[index]} |->
                             rows.prices[p]]]

\* "Save Procedure" with a name: << >> when the name is one of the rows'
\* names, else the settings to save
AddRow(procedures, rows, procedure_name, new_price) ==
    IF procedure_name \in Range(rows.procedures) THEN << >>
    ELSE <<[treatment_procedures |-> Append(rows.procedures, procedure_name),
            price_estimates |-> [p \in DOMAIN rows.prices \cup {procedure_name} |->
                                    IF p = procedure_name THEN new_price
                                    ELSE rows.prices[p]]]>>

\* save_settings: the document replaced, a failure reported and swallowed
save_settings(new_settings, save_ok) == IF save_ok THEN new_settings ELSE settings

\* a run that changes no setting: the widgets keep what the user gave them
SettingsRunEnds(names, numbers, message) ==
    /\ procedure_inputs' = names
    /\ price_inputs' = numbers
    /\ settings_notice' = message
    /\ UNCHANGED settings

\* a run that saved and called st.rerun(), and the run that follows it over
\* the settings as saved.  An input whose value= is as before keeps its
\* state; one whose value= changed keeps it or is reset to the new value=,
\* depending on the Streamlit version (widgets_kept); the inputs of rows no
\* longer shown are dropped.  With two rows of one name the run that follows
\* raises at the second price input.
SettingsRunSaves(names, numbers, saved, message, widgets_kept) ==
    LET old == settings
        new == saved.treatment_procedures
    IN  /\ settings' = saved
        /\ IF DuplicateKeys(new)
           THEN /\ procedure_inputs' = names
                /\ price_inputs' = numbers
                /\ settings_notice' = "exception"
           ELSE /\ procedure_inputs' =
                      [i \in DOMAIN new |->
                          IF /\ i \in DOMAIN names
                             /\ new[i] = old.treatment_procedures[i] \/ widgets_kept
                          THEN names[i] ELSE new[i]]
                /\ price_inputs' =
                      [p \in Range(new) |->
                          IF /\ p \in DOMAIN numbers
                             /\ \/ PriceOf(saved.price_estimates, p)
                                      = PriceOf(old.price_estimates, p)
                                \/ widgets_kept
                          THEN numbers[p] ELSE PriceOf(saved.price_estimates, p)]
                /\ settings_notice' = message

\* the page can be worked with: the rows are shown without an exception
SettingsShown == ~DuplicateKeys(settings.treatment_procedures)

\* the Settings page leaves the other pages alone
OtherPagesUnchanged ==
    /\ UNCHANGED invVars
    /\ UNCHANGED <<patients, patient_status, patient_selected, treatment_record,
                   tooth_condition, tooth_selected, discount_amount, tax_apply,
                   cost_summary, treatment_notice>>

\* a run of the page that an exception ends before anything is saved:
\* load_settings failed (doctor_settings is None), or two rows have one key
SettingsRunRaises(load_ok) ==
    /\ ~load_ok \/ ~SettingsShown
    /\ settings_notice' = "exception"
    /\ UNCHANGED <<settings, procedure_inputs, price_inputs>>
    /\ OtherPagesUnchanged

\* a plain run of the page (a visit)
VisitSettings ==
    /\ SettingsShown
    /\ SettingsRunEnds(RowNames(settings.treatment_procedures),
                       PriceInputs(settings.treatment_procedures, settings.price_estimates),
                       "none")
    /\ OtherPagesUnchanged

\* a text typed into the name input of a row
RenameProcedure(i, text) ==
    /\ SettingsShown
    /\ i \in DOMAIN settings.treatment_procedures
    /\ SettingsRunEnds([RowNames(settings.treatment_procedures) EXCEPT ![i] = text],
                       PriceInputs(settings.treatment_procedures, settings.price_estimates),
                       "none")
    /\ OtherPagesUnchanged

\* a number entered into the price input of a row
SetPrice(i, price) ==
    /\ SettingsShown
    /\ i \in DOMAIN settings.treatment_procedures
    /\ price >= 0
    /\ SettingsRunEnds(RowNames(settings.treatment_procedures),
                       [PriceInputs(settings.treatment_procedures, settings.price_estimates)
                           EXCEPT ![settings.treatment_procedures[i]] = price],
                       "none")
    /\ OtherPagesUnchanged

\* the delete button of a row
DeleteProcedure(i, save_ok, widgets_kept) ==
    /\ SettingsShown
    /\ i \in DOMAIN settings.treatment_procedures
    /\ LET procedures == settings.treatment_procedures
           names == RowNames(procedures)
           numbers == PriceInputs(procedures, settings.price_estimates)
           rows == RowsLoop(procedures, settings.price_estimates, names, numbers)
       IN  SettingsRunSaves(names, numbers,
                            save_settings(DeleteRow(procedures, rows, i), save_ok),
                            "deleted", widgets_kept)
    /\ OtherPagesUnchanged

\* "Save Procedure" of the "Add New Procedure" form
SaveProcedure(text, new_price, save_ok, widgets_kept) ==
    /\ SettingsShown
    /\ new_price >= 0
    /\ LET procedures == settings.treatment_procedures
           names == RowNames(procedures)
           numbers == PriceInputs(procedures, settings.price_estimates)
           rows == RowsLoop(procedures, settings.price_estimates, names, numbers)
           procedure_name == title(text)
           added == AddRow(procedures, rows, procedure_name, new_price)
       IN  IF procedure_name = ""
           THEN SettingsRunEnds(names, numbers, "invalid")
           ELSE IF added = << >>
           THEN SettingsRunEnds(names, numbers, "exists")
           ELSE /\ Len(procedures) < MaxProcedures
                /\ SettingsRunSaves(names, numbers, save_settings(added[1], save_ok),
                                    "added", widgets_kept)
    /\ OtherPagesUnchanged

(***************************************************************************)
(* Treatment page at rest (no patient active), for the inventory           *)
(* specifications, which leave the Treatment page's variables alone.       *)
(***************************************************************************)
TreatmentIdle ==
    /\ patients = << >>
    /\ patient_status = FALSE
    /\ patient_selected = NoPatient
    /\ treatment_record = << >>
    /\ tooth_condition = << >>
    /\ tooth_selected = None
    /\ treatment_notice = "none"
    /\ discount_amount = 0
    /\ tax_apply = FALSE
    /\ cost_summary = NoSummary
    /\ settings = DefaultSettings
    /\ SettingsPageUnvisited

(***************************************************************************)
(* Inventory page: inputs of the specifications.                           *)
(***************************************************************************)
\* the outcomes of a run's calls to its collaborators
Outcomes(read_ok, commit_ok, send_ok, test_ok, write_ok) ==
    [read_ok |-> read_ok, commit_ok |-> commit_ok, send_ok |-> send_ok,
     test_ok |-> test_ok, write_ok |-> write_ok]

\* every call succeeds
AllOk == Outcomes(TRUE, TRUE, TRUE, TRUE, TRUE)

\* reading the uploaded file raises
ReadFails == Outcomes(FALSE, TRUE, TRUE, TRUE, TRUE)

\* the commit of the import's batch raises
CommitFails == Outcomes(TRUE, FALSE, TRUE, TRUE, TRUE)

\* send_alert fails to deliver the automatic email
SendFails == Outcomes(TRUE, TRUE, FALSE, TRUE, TRUE)

\* send_alert fails to deliver the test email
TestFails == Outcomes(TRUE, TRUE, TRUE, FALSE, TRUE)

\* the write of the doctor's profile raises
WriteFails == Outcomes(TRUE, TRUE, TRUE, TRUE, FALSE)

\* texts typed into "Item Name"
StockNames == {<<"a", "b">>, <<" ", "a", "B">>, <<" ">>}

\* records of imported files
RecordAb == [name |-> <<"a", "b">>, quantity |-> Num(2), expiry_date |-> strftime(32)]

RecordNoPad ==
    [name |-> <<"a", "B">>, quantity |-> Num(1),
     expiry_date |-> [form |-> "nopad", day |-> 32], low_threshold |-> Num(1)]

RecordNoExpiry == [name |-> <<"a", "b">>, quantity |-> Num(1)]

RecordNotNum == [name |-> <<"a", "b">>, quantity |-> NotNum, expiry_date |-> strftime(1)]

RecordBadDate ==
    [name |-> <<"a", "b">>, quantity |-> Num(1), expiry_date |-> [form |-> "bad", day |-> 0]]

\* the dates the "New Expiry Date" input can submit for an item
EditExpiryDays(details) ==
    {d \in ExpiryDays \cup {PrefilledExpiry(details, today)} : d >= today}

\* outcomes of the two writes of "Save Changes": both succeed, the set
\* raises, the delete of the old document raises
SaveOutcomes == {<<TRUE, TRUE>>, <<FALSE, TRUE>>, <<TRUE, FALSE>>}

(***************************************************************************)
(* SpecInventory: the Inventory tab (add, edit, delete, and the import of  *)
(* a file), alerts left disabled.                                          *)
(***************************************************************************)
InitInventory ==
    /\ stock = << >>
    /\ inventory_data = << >>
    /\ today = 1
    /\ active_filter = "All Items"
    /\ email_alert_sent = FALSE
    /\ enable_email_alerts = FALSE
    /\ alert_email = None
    /\ doctor_alert_email = None
    /\ days_threshold = DefaultDaysThreshold
    /\ rerun_pending = FALSE
    /\ notice = Message("none", << >>)
    /\ auto_sent = FALSE
    /\ alert_notice = "none"
    /\ test_sent = FALSE
    /\ uploaded_file = << >>
    /\ import_notice = "none"
    /\ TreatmentIdle

\* the files uploaded in this specification
InventoryFiles == {<<RecordNoPad>>, <<RecordBadDate>>}

\* outcomes of a run of this specification
InventoryOutcomes == IF uploaded_file = << >> THEN {AllOk} ELSE {AllOk, ReadFails}

NextInventory ==
    \/ \E io \in InventoryOutcomes : PageRun(io)
    \/ \E data \in InventoryFiles, io \in {AllOk, ReadFails} : UploadFile(data, io)
    \/ RemoveFile(AllOk)
    \/ \E raw \in StockNames, d \in ExpiryDays, write_ok \in BOOLEAN,
          io \in InventoryOutcomes :
          AddItem(raw, 1, 1, d, write_ok, io)
    \/ \E id \in DOMAIN stock, ok \in SaveOutcomes, io \in InventoryOutcomes :
          \E d \in EditExpiryDays(stock[id]) :
             SaveChanges(id, 2, d, 1, ok[1], ok[2], io)
    \/ \E id \in DOMAIN stock, delete_ok \in BOOLEAN, io \in InventoryOutcomes :
          DeleteItem(id, delete_ok, io)

SpecInventory == InitInventory /\ [][NextInventory]_vars

(***************************************************************************)
(* SpecImport: files uploaded to import_data_to_firebase, over a stock     *)
(* that items are also added to and deleted from by hand.                  *)
(***************************************************************************)
\* the files uploaded: lists of records
ImportFiles ==
    {<<RecordAb>>, <<RecordNoPad, RecordAb>>, <<RecordAb, RecordNoExpiry>>,
     <<RecordNotNum, RecordNoPad>>, <<RecordBadDate>>}

\* outcomes of a run that imports a file
ImportOutcomes == {AllOk, ReadFails, CommitFails}

NextImport ==
    \/ \E io \in (IF uploaded_file = << >> THEN {AllOk} ELSE ImportOutcomes) : PageRun(io)
    \/ \E data \in ImportFiles, io \in ImportOutcomes : UploadFile(data, io)
    \/ RemoveFile(AllOk)
    \/ \E d \in ExpiryDays : AddItem(<<"a", "b">>, 1, 1, d, TRUE, AllOk)
    \/ \E id \in DOMAIN stock : DeleteItem(id, TRUE, AllOk)

SpecImport == InitInventory /\ [][NextImport]_vars

(***************************************************************************)
(* SpecBatch: files longer than one Firestore batch, with a record lacking *)
(* a required field before, at and after the batch limit.                  *)
(***************************************************************************)
RecordB == [name |-> <<"b">>, quantity |-> Num(3), expiry_date |-> strftime(32)]

\* batch_size records of two items in turn, then a record without expiry_date
FileInvalidAfterBatch ==
    [i \in 1..(batch_size + 1) |->
        IF i > batch_size THEN RecordNoExpiry
        ELSE IF i % 2 = 1 THEN RecordAb ELSE RecordB]

\* batch_size - 1 records, then a record without expiry_date
FileInvalidInBatch ==
    [i \in 1..batch_size |-> IF i = batch_size THEN RecordNoExpiry ELSE RecordAb]

\* the files uploaded in this specification
BatchFiles ==
    {FileInvalidAfterBatch, FileInvalidInBatch, <<RecordNoExpiry, RecordAb>>,
     <<RecordAb, RecordB>>}

NextBatch ==
    \/ PageRun(AllOk)
    \/ \E data \in BatchFiles, io \in {AllOk, CommitFails} : UploadFile(data, io)
    \/ RemoveFile(AllOk)
    \/ \E d \in ExpiryDays : AddItem(<<"b">>, 2, 1, d, TRUE, AllOk)
    \/ \E id \in DOMAIN stock : DeleteItem(id, TRUE, AllOk)

SpecBatch == InitInventory /\ [][NextBatch]_vars

(***************************************************************************)
(* SpecNames: items named in mixed letter case and with extra blanks,      *)
(* added by hand and imported from one-record files.                       *)
(***************************************************************************)
\* names typed into "Item Name" or found in a file record
NameInputs ==
    {<<"a", "b">>, <<"a", "B">>, <<"a", " ", "B", "A">>, <<"B", " ", " ", "a">>,
     <<" ", "b", " ">>}

\* the file record of an item with the name
NameRecord(name) == [name |-> name, quantity |-> Num(1), expiry_date |-> strftime(32)]

NextNames ==
    \/ PageRun(AllOk)
    \/ \E name \in NameInputs : UploadFile(<<NameRecord(name)>>, AllOk)
    \/ RemoveFile(AllOk)
    \/ \E raw \in NameInputs : AddItem(raw, 1, 1, 32, TRUE, AllOk)
    \/ \E id \in DOMAIN stock : DeleteItem(id, TRUE, AllOk)

SpecNames == InitInventory /\ [][NextNames]_vars

(***************************************************************************)
(* SpecNumbers: the quantities and thresholds the stock comes to hold when *)
(* items are added, edited, deleted and decremented by hand and imported   *)
(* from files whose number cells hold any integer.                         *)
(***************************************************************************)
\* a file record whose quantity cell holds "-1" and threshold cell "0"
RecordNegative ==
    [name |-> <<"a", "b">>, quantity |-> Num(0 - 1), expiry_date |-> strftime(32),
     low_threshold |-> Num(0)]

\* the files uploaded in this specification
NumbersFiles == {<<RecordNoPad>>, <<RecordNegative>>}

NextNumbers ==
    \/ PageRun(AllOk)
    \/ \E data \in NumbersFiles : UploadFile(data, AllOk)
    \/ RemoveFile(AllOk)
    \/ \E raw \in {<<"a", "b">>, <<"b">>}, q \in {1, 2} : AddItem(raw, q, 1, 32, TRUE, AllOk)
    \/ \E id \in DOMAIN stock, q \in {0, 2}, t \in {1, 2} :
          \E d \in EditExpiryDays(stock[id]) : SaveChanges(id, q, d, t, TRUE, TRUE, AllOk)
    \/ \E id \in DOMAIN stock : DeleteItem(id, TRUE, AllOk)
    \/ \E id \in DOMAIN stock : ModifyStock(id, 1)

SpecNumbers == InitInventory /\ [][NextNumbers]_vars

(***************************************************************************)
(* SpecAlerts: the Alerts tab (automatic alert, slider, alert settings)    *)
(* over a stock that is added to, edited, deleted from, imported into and  *)
(* decremented, as the days pass.                                          *)
(***************************************************************************)
\* outcomes of a run that evaluates the alerts
AlertsOutcomes == {AllOk, SendFails}

NextAlerts ==
    \/ \E io \in AlertsOutcomes : PageRun(io)
    \/ \E d \in ExpiryDays : AddItem(<<"a", "b">>, 1, 1, d, TRUE, AllOk)
    \/ \E id \in DOMAIN stock :
          \E d \in EditExpiryDays(stock[id]) : SaveChanges(id, 1, d, 1, TRUE, TRUE, AllOk)
    \/ \E id \in DOMAIN stock : DeleteItem(id, TRUE, AllOk)
    \/ UploadFile(<<RecordAb>>, AllOk)
    \/ \E io \in AlertsOutcomes : RemoveFile(io)
    \/ \E days \in SliderValues, io \in AlertsOutcomes : SlideThreshold(days, io)
    \/ \E io \in {AllOk, WriteFails} : ToggleAlerts(io)
    \/ \E addr \in EmailInputs, io \in {AllOk, WriteFails} : UpdateEmail(addr, io)
    \/ \E addr \in EmailInputs, io \in {AllOk, TestFails, SendFails} :
          SendTestAlert(addr, io)
    \/ \E id \in DOMAIN stock : ModifyStock(id, 1)
    \/ Tick

SpecAlerts == InitInventory /\ [][NextAlerts]_vars

(***************************************************************************)
(* SpecListing: the listing of show_inventory, for the inventories the     *)
(* page can hold: items of every quantity class and expiry distance,       *)
(* viewed under every filter as the days pass.                             *)
(***************************************************************************)
\* the items of the inventories listed: two names, in stock or not, low or
\* not, expiring on the first day or a month later
ListingNames == {<<"A">>, <<"B">>}

ListingQuantities == {0, 1, 2}

ListingItems ==
    {Item(q, strftime(d), 1, n) : q \in ListingQuantities, d \in ExpiryDays, n \in ListingNames}

\* the inventories made of a set of such items, one item per id
InventoryOf(items) ==
    [id \in {ItemId(i.display_name, i.expiry_date) : i \in items} |->
        CHOOSE i \in items : ItemId(i.display_name, i.expiry_date) = id]

ListingInventories ==
    {InventoryOf(items) : items \in
        {its \in SUBSET ListingItems :
            /\ Cardinality(its) <= MaxItems
            /\ \A i, j \in its :
                  ItemId(i.display_name, i.expiry_date) = ItemId(j.display_name, j.expiry_date)
                  => i = j}}

InitListing ==
    /\ stock \in ListingInventories
    /\ inventory_data = stock
    /\ today = 1
    /\ active_filter = "All Items"
    /\ email_alert_sent = FALSE
    /\ enable_email_alerts = FALSE
    /\ alert_email = None
    /\ doctor_alert_email = None
    /\ days_threshold = DefaultDaysThreshold
    /\ rerun_pending = FALSE
    /\ notice = Message("none", << >>)
    /\ auto_sent = FALSE
    /\ alert_notice = "none"
    /\ test_sent = FALSE
    /\ uploaded_file = << >>
    /\ import_notice = "none"
    /\ TreatmentIdle

NextListing ==
    \/ PageRun(AllOk)
    \/ \E filter \in Filters : SetFilter(filter)
    \/ Tick

SpecListing == InitListing /\ [][NextListing]_vars

(***************************************************************************)
(* Inventory page at rest, for the specifications of the Treatment page.   *)
(***************************************************************************)
InventoryIdle ==
    /\ stock = << >>
    /\ inventory_data = << >>
    /\ today = 1
    /\ active_filter = "All Items"
    /\ email_alert_sent = FALSE
    /\ enable_email_alerts = FALSE
    /\ alert_email = None
    /\ doctor_alert_email = None
    /\ days_threshold = DefaultDaysThreshold
    /\ rerun_pending = FALSE
    /\ notice = Message("none", << >>)
    /\ auto_sent = FALSE
    /\ alert_notice = "none"
    /\ test_sent = FALSE
    /\ uploaded_file = << >>
    /\ import_notice = "none"

(***************************************************************************)
(* SpecTreatment: registration, search, clear, the dental chart and the    *)
(* treatment form.  The plan changes by add_procedure only.                *)
(***************************************************************************)
InitTreatment ==
    /\ InventoryIdle
    /\ patients = << >>
    /\ patient_status = FALSE
    /\ patient_selected = NoPatient
    /\ treatment_record = << >>
    /\ tooth_condition = << >>
    /\ tooth_selected = None
    /\ treatment_notice = "none"
    /\ discount_amount = 0
    /\ tax_apply = FALSE
    /\ cost_summary = NoSummary
    /\ settings = ClinicSettings
    /\ SettingsPageUnvisited

WritesOk == TreatmentOutcome(TRUE, TRUE)

PlanWriteFails == TreatmentOutcome(TRUE, FALSE)

ChartWriteFails == TreatmentOutcome(FALSE, TRUE)

NextTreatment ==
    \/ \E complete, fetch_ok, store_ok \in BOOLEAN :
          RegisterPatient("F1", complete, fetch_ok, store_ok, WritesOk)
    \/ \E file_id \in FileIds, fetch_ok, widgets_kept \in BOOLEAN :
          SearchPatient(file_id, fetch_ok, widgets_kept, WritesOk)
    \/ ClearPatient(WritesOk)
    \/ \E condition \in HealthConditions : ChangeTooth("11", condition, WritesOk)
    \/ \E tooth \in Teeth, procedure \in Procedures, io \in {WritesOk, PlanWriteFails} :
          AddProcedure(tooth, procedure, io)

SpecTreatment == InitTreatment /\ [][NextTreatment]_vars

(***************************************************************************)
(* SpecManagement: the treatment plan under add_procedure and the          *)
(* treatment-management form.                                              *)
(***************************************************************************)
\* the values the rows' procedure select boxes can hold
ProcedureColumns(record) == [DOMAIN record -> Procedures]

\* the values the rows' start-date inputs can hold
StartDateColumns(record) == {[i \in DOMAIN record |-> day] : day \in {today, today + 1}}

NextManagement ==
    \/ \E store_ok \in BOOLEAN : RegisterPatient("F1", TRUE, TRUE, store_ok, WritesOk)
    \/ \E fetch_ok \in BOOLEAN : SearchPatient("F1", fetch_ok, FALSE, WritesOk)
    \/ ClearPatient(WritesOk)
    \/ \E condition \in HealthConditions : ChangeTooth("11", condition, WritesOk)
    \/ \E tooth \in Teeth, procedure \in Procedures : AddProcedure(tooth, procedure, WritesOk)
    \/ \E procedures \in ProcedureColumns(treatment_record),
          start_dates \in StartDateColumns(treatment_record),
          procedures_to_delete \in SUBSET DOMAIN treatment_record,
          io \in {WritesOk, PlanWriteFails} :
          BulkUpdate(procedures, start_dates, procedures_to_delete, io)

SpecManagement == InitTreatment /\ [][NextManagement]_vars

(***************************************************************************)
(* SpecAdd: the treatment form over several days: one patient, procedures  *)
(* added with and without a successful write, the plan reloaded by search. *)
(***************************************************************************)
NextAdd ==
    \/ \E store_ok \in BOOLEAN : RegisterPatient("F1", TRUE, TRUE, store_ok, WritesOk)
    \/ \E fetch_ok \in BOOLEAN : SearchPatient("F1", fetch_ok, FALSE, WritesOk)
    \/ \E tooth \in Teeth, procedure \in Procedures, io \in {WritesOk, PlanWriteFails} :
          AddProcedure(tooth, procedure, io)
    \/ Tick

SpecAdd == InitTreatment /\ [][NextAdd]_vars

(***************************************************************************)
(* SpecPatients: two patients registered, found and cleared in one         *)
(* session, their charts edited with chart writes that succeed or fail.    *)
(***************************************************************************)
NextPatients ==
    \/ \E file_id \in FileIds, io \in {WritesOk, ChartWriteFails} :
          RegisterPatient(file_id, TRUE, TRUE, TRUE, io)
    \/ \E file_id \in FileIds, widgets_kept \in BOOLEAN, io \in {WritesOk, ChartWriteFails} :
          SearchPatient(file_id, TRUE, widgets_kept, io)
    \/ ClearPatient(WritesOk)
    \/ \E tooth \in Teeth, condition \in HealthConditions,
          io \in {WritesOk, ChartWriteFails} :
          ChangeTooth(tooth, condition, io)

SpecPatients == InitTreatment /\ [][NextPatients]_vars

(***************************************************************************)
(* SpecSettings: the Treatment Procedures tab of the Doctor Settings page, *)
(* from the default settings: rows renamed, priced and deleted, procedures *)
(* added.                                                                  *)
(***************************************************************************)
\* texts typed into the name input of a row
RenameTexts == {"cleaning", "Filling"}

\* texts typed into "Procedure Name" of the "Add New Procedure" form
AddTexts == {"filling", "Scaling", ""}

InitSettings ==
    /\ InventoryIdle
    /\ TreatmentIdle

NextSettings ==
    \/ VisitSettings
    \/ \E load_ok \in BOOLEAN : SettingsRunRaises(load_ok)
    \/ \E i \in 1..MaxProcedures, text \in RenameTexts : RenameProcedure(i, text)
    \/ SetPrice(1, Cents(200))
    \/ \E i \in 1..MaxProcedures, widgets_kept \in BOOLEAN :
          DeleteProcedure(i, TRUE, widgets_kept)
    \/ \E text \in AddTexts, save_ok \in BOOLEAN, widgets_kept \in BOOLEAN :
          SaveProcedure(text, Cents(200), save_ok, widgets_kept)

SpecSettings == InitSettings /\ [][NextSettings]_vars

(***************************************************************************)
(* SpecResubmit: the treatment-management form submitted as it is shown,   *)
(* for plans whose procedures were repriced, renamed or deleted on the     *)
(* Settings page after they were added.                                    *)
(***************************************************************************)
\* the option the procedure select box of a row shows when it is not
\* touched: the row's procedure, or the first option when the procedure is
\* no longer among dental_data["treatment_procedures"]
PrefilledProcedure(procedure) ==
    IF procedure \in Procedures THEN procedure
    ELSE IF settings.treatment_procedures # << >> THEN settings.treatment_procedures[1]
    ELSE None

PrefilledProcedures(record) ==
    [i \in DOMAIN record |-> PrefilledProcedure(record[i].Procedure)]

\* the dates the rows' start date inputs show when they are not touched
PrefilledStartDates(record) == [i \in DOMAIN record |-> record[i].StartDate.day]

\* "Update Treatment Management" with no row edited and none marked "✗"
SubmitUnedited(io) ==
    BulkUpdate(PrefilledProcedures(treatment_record),
               PrefilledStartDates(treatment_record), {}, io)

NextResubmit ==
    \/ RegisterPatient("F1", TRUE, TRUE, TRUE, WritesOk)
    \/ \E procedure \in Procedures : AddProcedure("11", procedure, WritesOk)
    \/ VisitSettings
    \/ SetPrice(1, Cents(200))
    \/ RenameProcedure(1, "Filling")
    \/ \E i \in 1..MaxProcedures : DeleteProcedure(i, TRUE, FALSE)
    \/ SaveProcedure("Scaling", Cents(200), TRUE, FALSE)
    \/ \E io \in {WritesOk, PlanWriteFails} : SubmitUnedited(io)

SpecResubmit == InitTreatment /\ [][NextResubmit]_vars

(***************************************************************************)
(* SpecCost: the Cost Summary tab over the plans of an active patient,     *)
(* with the discount input and the VAT box as the only interactions.       *)
(***************************************************************************)
\* entry costs, discounts: whole currency units
CostValues == {0, Cents(100), Cents(200)}

DiscountInputs == {0, Cents(50), Cents(200), Cents(300)}

CostEntries ==
    {[Tooth |-> t, Condition |-> "Healthy", Procedure |-> p, Cost |-> c,
      Status |-> "Pending", StartDate |-> strftime(1)] :
        t \in Teeth, p \in {"Cleaning", "Filling"}, c \in CostValues}

\* the plans add_procedure builds (no two entries on one tooth and procedure)
CostPlans ==
    {<< >>} \cup {<<e>> : e \in CostEntries}
            \cup {plan \in CostEntries \X CostEntries :
                     plan[1].Tooth # plan[2].Tooth \/ plan[1].Procedure # plan[2].Procedure}

HealthyChart == [t \in Teeth |-> "Healthy"]

InitCost ==
    /\ InventoryIdle
    /\ \E plan \in CostPlans :
          /\ patients = [f \in {"F1"} |->
                            [file_id |-> f, dental_chart |-> HealthyChart,
                             treatment_plan |-> plan]]
          /\ treatment_record = plan
          /\ cost_summary = CostSummary(plan, 0, FALSE)
    /\ patient_status = TRUE
    /\ patient_selected = Selected("F1", HealthyChart)
    /\ tooth_condition = HealthyChart
    /\ tooth_selected = None
    /\ treatment_notice = "found"
    /\ discount_amount = 0
    /\ tax_apply = FALSE
    /\ settings = ClinicSettings
    /\ SettingsPageUnvisited

NextCost ==
    \/ \E discount \in DiscountInputs : SetDiscount(discount, WritesOk)
    \/ SetTaxApply(WritesOk)

SpecCost == InitCost /\ [][NextCost]_vars

(***************************************************************************)
(* Claims about the Inventory tab.                                         *)
(***************************************************************************)
\* the key the inventory contract derives for an item: the lowercased name
\* with spaces replaced by underscores, and the expiry date text
DerivedKey(name, expiry_text) == <<ReplaceSpaces(Lower(name)), expiry_text>>

\* the keys of the items the inventory holds, derived from their records
DerivedKeys(inv) == {DerivedKey(inv[id].display_name, inv[id].expiry_date) : id \in DOMAIN inv}

C3_EditKeepsKey ==
    [][\A id \in DOMAIN stock, ok \in SaveOutcomes :
          (/\ uploaded_file = << >>
           /\ ~StrptimeRaises(stock[id].expiry_date)
           /\ SaveChanges(id, 2, strptime(stock[id].expiry_date), 1, ok[1], ok[2], AllOk))
          => DOMAIN stock' = DOMAIN stock]_vars

\* the records of a file that the import does not skip
ValidRecords(data) == SelectSeq(data, LAMBDA r : ~ItemRaises(r))

\* the last record of the list with the key, as the item it is stored as
RECURSIVE LastWithKey(_, _)
LastWithKey(records, key) ==
    LET r == records[Len(records)]
    IN  IF DerivedKey(format_item_name(r.name), r.expiry_date) = key
        THEN Item(r.quantity.val, r.expiry_date,
                  IF "low_threshold" \in DOMAIN r THEN r.low_threshold.val ELSE DefaultThreshold,
                  format_item_name(r.name))
        ELSE LastWithKey(SubSeq(records, 1, Len(records) - 1), key)

\* merge-upsert of a list of records into an inventory: the keys of the
\* records hold the records' values, every other key is untouched
Upsert(inv, records) ==
    LET keys == {DerivedKey(format_item_name(records[i].name), records[i].expiry_date) :
                    i \in 1..Len(records)}
    IN  [k \in DOMAIN inv \cup keys |->
            IF k \in keys THEN LastWithKey(records, k) ELSE inv[k]]

\* a run that imports the file of the uploader
ImportRun ==
    \/ \E data \in ImportFiles, io \in ImportOutcomes : UploadFile(data, io)
    \/ \E io \in ImportOutcomes : PageRun(io)

\* C10: a completed import is a merge-upsert of the file's records (an
\* existing key takes the record's quantity, expiry_date, low_threshold and
\* display_name, a new key creates an item, the other items are untouched),
\* and importing the same file again leaves the stock as the first import
\* left it, both as the function computes it and in the run that follows.
C10_ImportIsIdempotentUpsert ==
    [][/\ (ImportRun /\ import_notice' = "done")
          => /\ stock' = Upsert(stock, ValidRecords(uploaded_file'[1]))
             /\ import_data(stock', uploaded_file'[1], TRUE).docs = stock'
       /\ (ImportRun /\ import_notice = "done" /\ import_notice' = "done")
          => stock' = stock]_vars

\* C10 witness: a file was imported twice in a row, into a stock that held an
\* item the file has no record of; the stock holds the file's item with the
\* file's values and the other item as it was added
C10_Witness ==
    /\ import_notice = "done"
    /\ uploaded_file = <<(<<RecordAb>>)>>
    /\ DOMAIN stock = {ItemId(<<"A", "b">>, strftime(32)), ItemId(<<"A", "b">>, strftime(1))}
    /\ stock[ItemId(<<"A", "b">>, strftime(32))] =
          Item(2, strftime(32), DefaultThreshold, <<"A", "b">>)
    /\ stock[ItemId(<<"A", "b">>, strftime(1))] = Item(1, strftime(1), 1, <<"A", "b">>)

(***************************************************************************)
(* Claims about the alert state (email_alert_sent: TRUE is Sent, FALSE is  *)
(* NotSent).                                                               *)
(***************************************************************************)
\* the run got as far as display_alerts and imported nothing
AlertsReached == ~rerun_pending' /\ notice'.kind = "none" /\ import_notice' = "none"

\* a run that evaluates the alerts view and changes neither the inventory
\* nor the alert settings: a plain run, the slider moved, a test alert sent
AlertsEvaluation ==
    /\ \/ \E io \in AlertsOutcomes : PageRun(io)
       \/ \E days \in SliderValues, io \in AlertsOutcomes : SlideThreshold(days, io)
       \/ \E addr \in EmailInputs, io \in {AllOk, TestFails} : SendTestAlert(addr, io)
    /\ AlertsReached

\* such a run in which every call succeeds
AlertsEvaluationOk ==
    /\ \/ PageRun(AllOk)
       \/ \E days \in SliderValues : SlideThreshold(days, AllOk)
       \/ \E addr \in EmailInputs : SendTestAlert(addr, AllOk)
    /\ AlertsReached

\* the set of expiring items the run finds
ExpiringNow == ExpiryItems(stock, days_threshold', today)

\* C5: over evaluations of the alerts view that mutate neither the inventory
\* nor the alert settings, an automatic email is sent only from NotSent and
\* moves the state to Sent, and while the state is Sent and the set of
\* expiring items is non-empty no automatic email is sent and the state stays
\* Sent: successive evaluations send exactly one email.
C5_OneAlertWhileSent ==
    [][AlertsEvaluation
       => /\ auto_sent' => (~email_alert_sent /\ email_alert_sent' /\ ExpiringNow # {})
          /\ (email_alert_sent /\ ExpiringNow # {}) => (~auto_sent' /\ email_alert_sent')
          /\ email_alert_sent => ~auto_sent']_vars

\* C5 witness: an evaluation made in state Sent (alerts enabled, an email
\* configured, an item expiring) sent nothing and left the state Sent
C5_Witness ==
    /\ email_alert_sent
    /\ ~auto_sent
    /\ ~rerun_pending
    /\ notice.kind = "none"
    /\ import_notice = "none"
    /\ enable_email_alerts
    /\ alert_email # None
    /\ ExpiryItems(stock, days_threshold, today) # {}

\* C6: an evaluation that finds the set of expiring items empty leaves the
\* state NotSent, and an evaluation in state NotSent that finds an item in
\* the set, with alerts enabled and an email configured, sends the automatic
\* email (when the send succeeds) and moves the state to Sent, from where C5
\* allows no second email.
C6_RearmOnEmptySet ==
    [][/\ (AlertsEvaluation /\ ExpiringNow = {}) => (~email_alert_sent' /\ ~auto_sent')
       /\ (/\ AlertsEvaluationOk
           /\ ~email_alert_sent
           /\ enable_email_alerts
           /\ alert_email # None
           /\ ExpiringNow # {})
          => (auto_sent' /\ email_alert_sent')]_vars

\* C6 witness: with alerts enabled and an email configured, an evaluation
\* found no item of the stock expiring and the state is NotSent
C6_Witness ==
    /\ ~email_alert_sent
    /\ ~auto_sent
    /\ ~rerun_pending
    /\ notice.kind = "none"
    /\ import_notice = "none"
    /\ enable_email_alerts
    /\ doctor_alert_email # None
    /\ DOMAIN stock # {}
    /\ stock = inventory_data
    /\ days_threshold = 1
    /\ today = MaxToday
    /\ ExpiryItems(stock, days_threshold, today) = {}

\* a step that changes the inventory, or completes an import
InventoryMutated == stock' # stock \/ import_notice' = "done"

\* a step that enables the alerts
AlertsEnabled == ~enable_email_alerts /\ enable_email_alerts' /\ doctor_alert_email = None

\* a step that saves a new alert email
EmailUpdated ==
    \E addr \in EmailInputs :
       UpdateEmail(addr, AllOk) /\ HasAt(addr) /\ doctor_alert_email' = addr

\* C7: after every successful mutation of the inventory (add, edit, remove,
\* decrement, import) and every change of the alert settings (alerts
\* enabled, alert email updated) the alert state is NotSent.
C7_MutationResets ==
    [][(InventoryMutated \/ AlertsEnabled \/ EmailUpdated) => ~email_alert_sent']_vars

(***************************************************************************)
(* Claims about the listing.                                               *)
(***************************************************************************)
\* the fixed-priority rule of the inventory contract
StatusRule(quantity, threshold, days_until_expiry) ==
    IF quantity = 0 THEN "Out of Stock"
    ELSE IF days_until_expiry <= 0 THEN "Expired"
    ELSE IF quantity <= threshold THEN "Low Stock"
    ELSE IF days_until_expiry <= 30 THEN "Expiring Soon"
    ELSE "Normal"

\* C8: the status the listing shows for an item is the result of the
\* fixed-priority rule on its quantity, threshold and days until expiry
\* (expiry - today): OutOfStock if quantity = 0, else Expired if days <= 0,
\* else LowStock if quantity <= threshold, else ExpiringSoon if days <= 30,
\* else Normal.
C8_StatusIsPriorityRule ==
    LET rows == inventory_df(inventory_data, today)
    IN  /\ \A id \in DOMAIN inventory_data : \E i \in 1..Len(rows) : rows[i].ID = id
        /\ \A i \in 1..Len(rows) :
              LET details == inventory_data[rows[i].ID]
              IN  rows[i].Status =
                     StatusRule(details.quantity, details.low_threshold,
                                strptime(details.expiry_date) - today)

\* C8 witness: the listing shows an expired item without stock as out of
\* stock, and a low item that expires within the month as low on stock
C8_Witness ==
    LET rows == inventory_df(inventory_data, today)
    IN  /\ Len(rows) = 2
        /\ rows[1].Status = "Out of Stock"
        /\ rows[1].Days <= 0
        /\ rows[2].Status = "Low Stock"
        /\ rows[2].Days > 0
        /\ rows[2].Days <= ExpiringSoonDays

\* the sort priority of the inventory contract
PriorityRule(status) ==
    CASE status = "Expired" -> 0
      [] status = "Out of Stock" -> 1
      [] status = "Low Stock" -> 2
      [] status = "Expiring Soon" -> 3
      [] status = "Normal" -> 4

\* C9: the listing is ordered by status priority Expired(0) < OutOfStock(1)
\* < LowStock(2) < ExpiringSoon(3) < Normal(4): no row comes before a row of
\* a strictly smaller priority number; and the listing holds exactly the
\* inventory's items, each once.  The table displayed under a status filter
\* is the listing's rows of that status, in the listing's order.
C9_ListingSortedAndComplete ==
    LET rows == inventory_df(inventory_data, today)
        shown == show_inventory(inventory_data, today, active_filter)
    IN  /\ \A i, j \in 1..Len(rows) :
              i < j => PriorityRule(rows[i].Status) <= PriorityRule(rows[j].Status)
        /\ {rows[i].ID : i \in 1..Len(rows)} = DOMAIN inventory_data
        /\ Len(rows) = Cardinality(DOMAIN inventory_data)
        /\ \A i \in 1..Len(rows) :
              /\ rows[i].Quantity = inventory_data[rows[i].ID].quantity
              /\ rows[i].Item = inventory_data[rows[i].ID].display_name
        /\ active_filter = "All Items" => shown = rows
        /\ \A i, j \in 1..Len(shown) :
              i < j => PriorityRule(shown[i].Status) <= PriorityRule(shown[j].Status)

\* C9 witness: an out-of-stock item and an expired item are listed, the
\* expired one first
C9_Witness ==
    LET rows == show_inventory(inventory_data, today, active_filter)
    IN  /\ today = MaxToday
        /\ active_filter = "All Items"
        /\ Len(rows) = 2
        /\ rows[1].Status = "Expired"
        /\ rows[2].Status = "Out of Stock"
        /\ rows[2].Days > 0

(***************************************************************************)
(* Claims about the Treatment page.                                        *)
(***************************************************************************)
\* no two entries of the plan are on the same tooth with the same procedure
NoSharedPair(record) ==
    \A i, j \in DOMAIN record :
        (record[i].Tooth = record[j].Tooth /\ record[i].Procedure = record[j].Procedure)
            => i = j

\* the plan of every patient document
PersistedPlans == [f \in DOMAIN patients |-> patients[f].treatment_plan]

\* C1: adding a procedure to a tooth whose plan already has that procedure
\* on that tooth is rejected with the duplicate error and changes neither
\* the plan in the session nor any persisted plan; and while the plan
\* changes by add_procedure only, no two entries of the session plan or of
\* a persisted plan share a (tooth, procedure) pair.
C1_DuplicateAddRejected ==
    /\ [](/\ NoSharedPair(treatment_record)
          /\ \A f \in DOMAIN patients : NoSharedPair(patients[f].treatment_plan))
    /\ [][\A tooth \in Teeth, procedure \in Procedures, io \in {WritesOk, PlanWriteFails} :
            (HasPair(treatment_record, tooth, procedure) /\ AddProcedure(tooth, procedure, io))
                => /\ treatment_notice' = "duplicate"
                   /\ treatment_record' = treatment_record
                   /\ PersistedPlans' = PersistedPlans]_vars

\* a second add of a pair was just rejected on a plan of two entries
C1_Witness ==
    /\ patient_status
    /\ treatment_notice = "duplicate"
    /\ Len(treatment_record) >= 2

\* the sum of the entry costs, from the last entry to the first
RECURSIVE Subtotal(_)
Subtotal(record) ==
    IF record = << >> THEN 0
    ELSE Subtotal(SubSeq(record, 1, Len(record) - 1)) + record[Len(record)].Cost

\* C4: the Cost Summary's figures are subtotal = sum of the entry costs,
\* discount = min(discount input, subtotal), never above the subtotal,
\* VAT = 15 % of the subtotal before the discount when VAT is ticked and 0
\* otherwise, and total = subtotal - discount + VAT.
C4_CostEngine ==
    cost_summary.shown =>
        /\ cost_summary.total_price = Subtotal(treatment_record)
        /\ cost_summary.discount_calculation
              = (IF discount_amount <= Subtotal(treatment_record)
                 THEN discount_amount ELSE Subtotal(treatment_record))
        /\ cost_summary.discount_calculation <= cost_summary.total_price
        /\ 100 * cost_summary.tax_calculation
              = (IF tax_apply THEN 15 * Subtotal(treatment_record) ELSE 0)
        /\ cost_summary.final_calculation
              = cost_summary.total_price - cost_summary.discount_calculation
                + cost_summary.tax_calculation

\* subtotal 200, discount 50, VAT on: VAT 30, total 180
C4_Witness ==
    /\ tax_apply
    /\ discount_amount = Cents(50)
    /\ cost_summary = [shown |-> TRUE, total_price |-> Cents(200),
                       discount_calculation |-> Cents(50),
                       tax_calculation |-> Cents(30),
                       final_calculation |-> Cents(180)]

(***************************************************************************)
(* Claims about the edit of an inventory item.                             *)
(***************************************************************************)
\* C11: a "Save Changes" that submits another expiry date than the item's
\* and whose writes succeed: when the key derived from the item's name and
\* the new date is the key of an item of the inventory, the conflict error
\* is shown and the stock is unchanged (but for what the run's import of a
\* file left in the uploader writes); otherwise the old key is gone, the new
\* key holds the submitted quantity, date and threshold under the original
\* display name, and the stock has as many records as before.
C11_EditRekeys ==
    [][\A id \in DOMAIN stock, d \in ExpiryDays, io \in {AllOk, ReadFails} :
          (/\ ~ShowInventoryRaises(stock)
           /\ strptime(stock[id].expiry_date) # d
           /\ SaveChanges(id, 2, d, 1, TRUE, TRUE, io))
          => LET key == DerivedKey(stock[id].display_name, strftime(d))
             IN  IF key \in DOMAIN stock
                 THEN /\ notice'.kind = "conflict"
                      /\ stock' = ImportOutcome(stock, uploaded_file, io).docs
                      /\ uploaded_file = << >> => stock' = stock
                 ELSE /\ id \notin DOMAIN stock'
                      /\ key \in DOMAIN stock'
                      /\ stock'[key] = [quantity |-> 2, expiry_date |-> strftime(d),
                                        low_threshold |-> 1,
                                        display_name |-> stock[id].display_name]
                      /\ Cardinality(DOMAIN stock') = Cardinality(DOMAIN stock)]_vars

\* an item was just moved to the key of its new expiry date, next to another
\* item that stayed as it was
C11_Witness ==
    /\ notice.kind = "rekeyed"
    /\ Cardinality(DOMAIN stock) = 2
    /\ \E id \in DOMAIN stock : stock[id].quantity = 2 /\ stock[id].low_threshold = 1

(***************************************************************************)
(* Claims about the registration of patients.                              *)
(***************************************************************************)
\* C12: a registration (all fields filled) under a file id that a patient
\* document of the doctor already has registers nothing and leaves that
\* document as it was.  (The store keeps one document per file id, so a file
\* id never identifies two patients.)
C12_DuplicateRegistrationRejected ==
    [][\A file_id \in DOMAIN patients, fetch_ok, store_ok \in BOOLEAN :
          RegisterPatient(file_id, TRUE, fetch_ok, store_ok, WritesOk)
          => /\ treatment_notice' # "registered"
             /\ patients'[file_id] = patients[file_id]]_vars

(***************************************************************************)
(* Claims about the treatment-management form.                             *)
(***************************************************************************)
\* the fields of a plan's entries that the management form settles
BulkView(list) ==
    [i \in DOMAIN list |->
        [Tooth |-> list[i].Tooth, Procedure |-> list[i].Procedure,
         Cost |-> list[i].Cost, StartDate |-> list[i].StartDate]]

\* the list bulk_update is to produce from row i on: the rows not marked for
\* deletion, in order, each with its tooth, the submitted procedure, its
\* stored cost when the procedure is the stored one and the configured price
\* otherwise, and the submitted start date
RECURSIVE BulkExpected(_, _, _, _, _)
BulkExpected(record, i, procedures, start_dates, deleted) ==
    IF i > Len(record) THEN << >>
    ELSE IF i \in deleted
    THEN BulkExpected(record, i + 1, procedures, start_dates, deleted)
    ELSE <<[Tooth |-> record[i].Tooth,
            Procedure |-> procedures[i],
            Cost |-> IF procedures[i] = record[i].Procedure THEN record[i].Cost
                     ELSE procedure_price(procedures[i]),
            StartDate |-> [form |-> "canon", day |-> start_dates[i]]]>>
         \o BulkExpected(record, i + 1, procedures, start_dates, deleted)

\* C13: "Update Treatment Management" with rows marked for deletion, whose
\* write succeeds, replaces the plan by the unmarked rows in their order,
\* each with its tooth, the submitted procedure, the stored cost or the new
\* procedure's price, and the submitted start date; the list is the plan of
\* the session and the plan persisted for the patient.
C13_BulkUpdateReplacesPlan ==
    [][\A procedures \in ProcedureColumns(treatment_record),
          start_dates \in StartDateColumns(treatment_record),
          deleted \in SUBSET DOMAIN treatment_record :
          BulkUpdate(procedures, start_dates, deleted, WritesOk)
          => LET expected == BulkExpected(treatment_record, 1, procedures,
                                          start_dates, deleted)
                 file_id == patient_selected.file_id
             IN  /\ BulkView(treatment_record') = expected
                 /\ BulkView(patients'[file_id].treatment_plan) = expected]_vars

\* C14: an "Add Procedure" for a tooth and procedure the plan does not hold
\* appends one entry to the plan of the session: the earlier entries are as
\* they were, and the last entry has the tooth, the procedure, the price the
\* settings give the procedure (0 when they give none), the status
\* "Pending" and today's date; when the write succeeds the persisted plan is
\* that list.
C14_AddAppendsOneEntry ==
    [][\A tooth \in Teeth, procedure \in Procedures, io \in {WritesOk, PlanWriteFails} :
          (/\ \A i \in DOMAIN treatment_record :
                 treatment_record[i].Tooth # tooth \/ treatment_record[i].Procedure # procedure
           /\ AddProcedure(tooth, procedure, io))
          => /\ Len(treatment_record') = Len(treatment_record) + 1
             /\ SubSeq(treatment_record', 1, Len(treatment_record)) = treatment_record
             /\ LET entry == treatment_record'[Len(treatment_record')]
                IN  /\ entry.Tooth = tooth
                    /\ entry.Procedure = procedure
                    /\ entry.Cost = (IF procedure \in DOMAIN settings.price_estimates
                                     THEN settings.price_estimates[procedure] ELSE 0)
                    /\ entry.Status = "Pending"
                    /\ entry.StartDate = [form |-> "canon", day |-> today]
             /\ io.plan_ok
                => patients'[patient_selected.file_id].treatment_plan = treatment_record']_vars

\* a procedure without a price was just added, on a later day, after another
C14_Witness ==
    /\ treatment_notice = "added"
    /\ today > 1
    /\ Len(treatment_record) >= 2
    /\ LET entry == treatment_record[Len(treatment_record)]
       IN  entry.Cost = 0 /\ entry.StartDate.day = today /\ entry.Procedure = "Filling"

\* a word with a letter that is not lower case
C15_HasUpper(w) == \E i \in 1..Len(w) : w[i] # LowerChar(w[i])

\* a word as the name rule leaves it: first letter capitalized when the word
\* is entirely lower case, unchanged when it holds an upper-case letter
C15_Word(w) == IF C15_HasUpper(w) THEN w ELSE <<UpperChar(w[1])>> \o Tail(w)

\* the words of a name, each as the name rule leaves it
C15_Words(name) == [i \in 1..Len(Split(name)) |-> C15_Word(Split(name)[i])]

\* the stock holds, under the key derived from the normalized name, an item
\* displayed under the normalized name
C15_StoredNormalized(docs, name) ==
    LET normalized == Join(C15_Words(name))
        id == DerivedKey(normalized, strftime(32))
    IN  /\ id \in DOMAIN docs
        /\ docs[id].display_name = normalized
        /\ Split(docs[id].display_name) = C15_Words(name)

\* C15: name normalization capitalizes the first letter of each
\* whitespace-separated word that is entirely lower case and leaves every
\* word holding an upper-case letter unchanged; an item added by hand and an
\* item imported from a file are both stored under the key derived from that
\* same normalized name (lowercased, blanks to underscores, expiry date).
C15_NameNormalization ==
    [][/\ \A raw \in NameInputs :
             (AddItem(raw, 1, 1, 32, TRUE, AllOk) /\ notice'.kind = "added")
             => C15_StoredNormalized(stock', raw)
       /\ \A name \in NameInputs :
             UploadFile(<<NameRecord(name)>>, AllOk)
             => /\ import_notice' = "done"
                /\ C15_StoredNormalized(stock', name)]_vars

\* C15 witness: an item whose name had a lower-case word and a word in upper
\* case was added or imported: the first is capitalized, the second kept
C15_Witness ==
    /\ notice.kind = "added" \/ import_notice = "done"
    /\ \E id \in DOMAIN stock :
          /\ id[1] = <<"a", "_", "b", "a">>
          /\ stock[id].display_name = <<"A", " ", "B", "A">>
\* C16: in every state reached by adding, editing, deleting and decrementing
\* items and importing files, every item of the stock has an integer
\* quantity of at least 0 and an integer low-stock threshold of at least 1.
C16_QuantitiesInRange ==
    \A id \in DOMAIN stock :
       /\ stock[id].quantity \in Nat
       /\ stock[id].low_threshold \in Nat \ {0}

\* C17: after any sequence of adding, renaming and deleting procedures in
\* Doctor Settings, every key of the persisted price_estimates is a name of
\* the persisted treatment_procedures (a deleted procedure's price entry is
\* removed with it).
C17_PricesHaveProcedures ==
    \A p \in DOMAIN settings.price_estimates :
       \E i \in DOMAIN settings.treatment_procedures : settings.treatment_procedures[i] = p

\* C18: the persisted treatment_procedures never holds the same name twice,
\* whatever procedures are added, renamed and deleted in Doctor Settings; a
\* "Save Procedure" whose title-cased name is a persisted procedure is
\* rejected with "already exists" and leaves the settings unchanged.
C18_ProcedureNamesUnique ==
    /\ [](\A i, j \in DOMAIN settings.treatment_procedures :
             settings.treatment_procedures[i] = settings.treatment_procedures[j] => i = j)
    /\ [][\A text \in AddTexts, save_ok \in BOOLEAN, widgets_kept \in BOOLEAN :
             (/\ \E i \in DOMAIN settings.treatment_procedures :
                    settings.treatment_procedures[i] = title(text)
              /\ SaveProcedure(text, Cents(200), save_ok, widgets_kept))
             => /\ settings_notice' = "exists"
                /\ settings' = settings]_vars

\* C19: "Send Test Alert" pressed with a valid address typed while an item
\* is near expiry sends the test email (when the send succeeds) whether the
\* alert state is Sent or NotSent, and the test leaves the alert state as it
\* is: Sent stays Sent, and NotSent changes only when the same run's
\* evaluation of the alerts view delivers the automatic email.
C19_TestAlertBypassesGate ==
    [][\A addr \in EmailInputs, io \in {AllOk, SendFails} :
          (SendTestAlert(addr, io) /\ ExpiringNow # {})
          => /\ HasAt(addr) => test_sent'
             /\ ~HasAt(addr) => ~test_sent'
             /\ email_alert_sent => (email_alert_sent' /\ ~auto_sent')
             /\ ~email_alert_sent => (email_alert_sent' = auto_sent')]_vars

\* C19 witness: a test email was delivered by a run that began and ended in
\* state Sent and sent no automatic email
C19_Witness ==
    /\ test_sent
    /\ email_alert_sent
    /\ ~auto_sent
    /\ ExpiryItems(stock, days_threshold, today) # {}

\* a test email was delivered by a run that left the state NotSent
C19_WitnessNotSent ==
    /\ test_sent
    /\ ~email_alert_sent
    /\ ExpiryItems(stock, days_threshold, today) # {}

\* C20: in a run that renders the dental chart of the active patient, the
\* chart counts as changed exactly when some tooth of the layout has a
\* resolved condition different from its value in the persisted chart (a
\* tooth absent from the chart counting as "Healthy"), and the persisted
\* chart is rewritten, as the whole map of resolved conditions, exactly then.
\* The persisted chart of a run that registers the patient is the empty
\* chart the registration stored.
C20_ChartRewrittenIffChanged ==
    [][\A f \in FileIds :
          (/\ f \in DOMAIN patients'
           /\ f \in DOMAIN patients \/ treatment_notice' = "registered"
           /\ patient_status'
           /\ patient_selected'.file_id = f
           /\ treatment_notice' # "exception")
          => LET persisted == IF treatment_notice' = "registered" THEN << >>
                              ELSE patients[f].dental_chart
                 value(t) == IF t \in DOMAIN persisted THEN persisted[t] ELSE "Healthy"
                 changed == \E t \in Teeth : tooth_condition'[t] # value(t)
             IN  /\ changed <=> patients'[f].dental_chart # persisted
                 /\ changed => patients'[f].dental_chart =
                                  [t \in DOMAIN persisted \cup Teeth |->
                                      IF t \in Teeth THEN tooth_condition'[t]
                                      ELSE persisted[t]]]_vars

\* C21: when a patient becomes the active patient through registration or
\* search, every tooth absent from the patient's stored chart resolves to
\* "Healthy" in that run's render of the chart, whatever patient was active
\* before, and is not written into the patient's persisted chart with a
\* condition chosen for a previous patient.
C21_AbsentTeethHealthy ==
    [][\A f \in FileIds :
          (/\ treatment_notice' \in {"registered", "found"}
           /\ patient_status'
           /\ patient_selected'.file_id = f)
          => LET stored == IF treatment_notice' = "registered" THEN << >>
                           ELSE patients[f].dental_chart
             IN  \A t \in Teeth \ DOMAIN stored :
                    /\ tooth_condition'[t] = "Healthy"
                    /\ t \in DOMAIN patients'[f].dental_chart
                       => patients'[f].dental_chart[t] = "Healthy"]_vars

\* C22: the condition of a treatment-plan entry is the tooth's condition at
\* the moment the entry was added: an edit of the dental chart changes the
\* condition of no entry of the plan, in the session or in the store.
C22_ConditionIsSnapshot ==
    [][\A tooth \in Teeth, condition \in HealthConditions :
          ChangeTooth(tooth, condition, WritesOk)
          => /\ \A i \in DOMAIN treatment_record :
                   /\ i \in DOMAIN treatment_record'
                   /\ treatment_record'[i].Condition = treatment_record[i].Condition
             /\ \A f \in DOMAIN patients :
                   patients'[f].treatment_plan = patients[f].treatment_plan]_vars

\* C23: from a plan of two entries on the same tooth with different
\* procedures, "Update Treatment Management" submitted with one entry's
\* procedure changed to the other's, no row marked for deletion, is
\* accepted: the plan of the session and the persisted plan then hold two
\* entries with the same tooth and procedure.
C23_BulkUpdateStoresDuplicate ==
    [][\A procedures \in ProcedureColumns(treatment_record),
          start_dates \in StartDateColumns(treatment_record) :
          (/\ Len(treatment_record) = 2
           /\ treatment_record[1].Tooth = treatment_record[2].Tooth
           /\ treatment_record[1].Procedure # treatment_record[2].Procedure
           /\ procedures[1] = procedures[2]
           /\ BulkUpdate(procedures, start_dates, {}, WritesOk))
          => LET stored == patients'[patient_selected.file_id].treatment_plan
             IN  /\ Len(treatment_record') = 2
                 /\ treatment_record'[1].Tooth = treatment_record'[2].Tooth
                 /\ treatment_record'[1].Procedure = treatment_record'[2].Procedure
                 /\ Len(stored) = 2
                 /\ stored[1].Tooth = stored[2].Tooth
                 /\ stored[1].Procedure = stored[2].Procedure]_vars

\* C24: a treatment-plan mutation whose write of the full list fails reports
\* the failure, keeps the mutation in the plan of the session (the new entry
\* after add_procedure, the replaced list after bulk_update) and leaves the
\* persisted plan as it was.
C24_FailedWriteKeepsMutation ==
    [][/\ \A tooth \in Teeth, procedure \in Procedures :
             (/\ ~HasPair(treatment_record, tooth, procedure)
              /\ AddProcedure(tooth, procedure, PlanWriteFails))
             => /\ treatment_notice' = "write_failed"
                /\ Len(treatment_record') = Len(treatment_record) + 1
                /\ treatment_record'[Len(treatment_record')].Tooth = tooth
                /\ treatment_record'[Len(treatment_record')].Procedure = procedure
                /\ PersistedPlans' = PersistedPlans
       /\ \A procedures \in ProcedureColumns(treatment_record),
             start_dates \in StartDateColumns(treatment_record),
             deleted \in SUBSET DOMAIN treatment_record :
             BulkUpdate(procedures, start_dates, deleted, PlanWriteFails)
             => /\ treatment_notice' = "write_failed"
                /\ BulkView(treatment_record')
                      = BulkExpected(treatment_record, 1, procedures, start_dates, deleted)
                /\ PersistedPlans' = PersistedPlans]_vars

\* a list with a record lacking name, quantity or expiry_date
C25_HasInvalidRecord(data) ==
    \E i \in DOMAIN data : ~({"name", "quantity", "expiry_date"} \subseteq DOMAIN data[i])

\* C25: a run that imports a file holding a record without name, quantity or
\* expiry_date ends with the validation error and writes none of the file's
\* records: the stock is as before, wherever the record stands in the list
\* and whether the list is shorter or longer than the batch of 500 writes.
C25_InvalidImportWritesNothing ==
    [][(/\ uploaded_file' # << >>
        /\ C25_HasInvalidRecord(uploaded_file'[1])
        /\ import_notice' \notin {"none", "error"})
       => /\ import_notice' = "invalid"
          /\ stock' = stock]_vars


\* C26: whenever the in-memory chart of the active patient differs from the
\* patient's persisted chart (as it does after a chart write that failed),
\* the next render of the chart reports changed = TRUE, so that the write is
\* attempted again.
C26_DifferenceIsRetried ==
    (/\ patient_status
     /\ patient_selected.file_id \in DOMAIN patients
     /\ patient_selected.dental_chart # patients[patient_selected.file_id].dental_chart)
    => render_chart(patient_selected.dental_chart, tooth_condition,
                    tooth_selected, NoToothEvent).changed

\* the tooth, procedure and cost of a plan's entries, in the plan's order
C27_Entries(record) ==
    [i \in DOMAIN record |-> <<record[i].Tooth, record[i].Procedure, record[i].Cost>>]

\* C27: submitting the treatment-management form with no row edited and no
\* row marked for deletion leaves the plan as it was, in memory and in the
\* store: the same entries in the same order with the same procedure and
\* cost, also when prices were changed or procedures renamed or deleted on
\* the Settings page since the entries were added.
C27_UneditedSubmitKeepsPlan ==
    [][\A io \in {WritesOk, PlanWriteFails} :
          SubmitUnedited(io)
          => /\ C27_Entries(treatment_record') = C27_Entries(treatment_record)
             /\ \A f \in DOMAIN patients :
                   /\ f \in DOMAIN patients'
                   /\ C27_Entries(patients'[f].treatment_plan)
                         = C27_Entries(patients[f].treatment_plan)]_vars

\* an unedited form was submitted for a plan with an entry whose procedure
\* has left the settings and with an entry whose price is no longer its cost
C27_Witness ==
    /\ treatment_notice = "exception"
    /\ SettingsPageUnvisited
    /\ \E i \in DOMAIN treatment_record : treatment_record[i].Procedure \notin Procedures
    /\ \E i \in DOMAIN treatment_record :
          /\ treatment_record[i].Procedure \in DOMAIN settings.price_estimates
          /\ settings.price_estimates[treatment_record[i].Procedure] # treatment_record[i].Cost

\* C28: "Save Changes" pressed with every field of the edit form at the
\* value the form shows for the item (its quantity, its expiry date, its
\* low-stock threshold) leaves the inventory as it was: the same keys, each
\* with the same quantity, expiry_date, low_threshold and display_name,
\* whether the item's expiry date is after, on or before today.
C28_PrefilledSaveKeepsInventory ==
    [][\A id \in DOMAIN stock :
          SaveChanges(id, stock[id].quantity, PrefilledExpiry(stock[id], today),
                      stock[id].low_threshold, TRUE, TRUE, AllOk)
          => stock' = stock]_vars

\* C29: while alerts are disabled in the session (the user unticked "Enable
\* Email Alerts", also when the write that removes alert_email from the
\* profile failed), no run in which the user leaves the alert settings alone
\* (a plain run of the page, the expiry slider moved) sends the automatic
\* alert email.
C29_NoAutoEmailWhileDisabled ==
    [][(/\ ~enable_email_alerts
        /\ \/ \E io \in AlertsOutcomes : PageRun(io)
           \/ \E days \in SliderValues, io \in AlertsOutcomes : SlideThreshold(days, io))
       => ~auto_sent']_vars

\* the automatic send is due in the state: an item is near expiry, alerts
\* are enabled (in the session or through the profile's alert_email), an
\* alert email is configured and the alert state is NotSent
C30_SendDue ==
    LET from_doc == doctor_alert_email # None
        enabled == from_doc \/ enable_email_alerts
        email == IF from_doc THEN doctor_alert_email ELSE alert_email
    IN  /\ DOMAIN stock # {}
        /\ AutoAlertDue(ExpiryItems(stock, days_threshold, today), enabled, email_alert_sent)
        /\ email # None

\* C30: a run whose automatic send failed reports the failure and leaves the
\* alert state NotSent; the alert state becomes Sent only in a run whose send
\* reported success; and every plain evaluation made while the send is due
\* attempts it, so that after a failed send, with the conditions unchanged,
\* the next evaluation attempts the send again.
C30_FailedSendIsRetried ==
    [][/\ alert_notice' = "send_failed" => (~email_alert_sent' /\ ~auto_sent')
       /\ (~email_alert_sent /\ email_alert_sent') => (alert_notice' = "sent" /\ auto_sent')
       /\ \A io \in AlertsOutcomes :
             (C30_SendDue /\ PageRun(io) /\ AlertsReached)
             => /\ alert_notice' = (IF io.send_ok THEN "sent" ELSE "send_failed")
                /\ io.send_ok => email_alert_sent'
                /\ ~io.send_ok => C30_SendDue']_vars

\* C30 witness: a run's automatic send failed, the state is NotSent and the
\* send is due again
C30_Witness ==
    /\ alert_notice = "send_failed"
    /\ ~email_alert_sent
    /\ ~rerun_pending
    /\ C30_SendDue

====
